---- MODULE Spec2Model ----
(***************************************************************************)
(* Agentic design pattern examples: the primary/fallback location          *)
(* workflow and the reflection loop (ch12_exception.ts), the goal-driven   *)
(* code agent (ch09_mcp_client.ts) and the coordinator router.             *)
(*                                                                         *)
(* Each example is a script of its own.  The variable `script` says which  *)
(* one is running; the variables of the other scripts keep their initial   *)
(* values.  Strings are TLA+ strings, taken apart with Len and SubSeq.     *)
(***************************************************************************)
EXTENDS Integers, Sequences, FiniteSets, TLC

VARIABLES
    script,         \* which example script this behaviour runs
    \* --- fallback workflow (ch12_exception.ts, lines 1-163)
    wfNode,         \* node the compiled graph runs next: "idle", a node name, "END"
    wfState,        \* the run's ILocationState
    wfPartial,      \* partial returned by the node that ran last
    wfExecuted,     \* names of the nodes executed in this run, in order
    wfToolCalls,    \* tool invocations of this run, in order: <<tool, argument>>
    wfRuns,         \* number of runSequentialAgent calls started
    wfPrinted,      \* what runSequentialAgent logged as the final result
    \* --- reflection loop (ch12_exception.ts, lines 165-307)
    rlPc,           \* position in main / runReflectionLoop
    rlLlm,          \* "fake": one shared FakeListChatModel; "live": two chat models
    rlFakeIdx,      \* index of the FakeListChatModel's next response (0-based)
    rlI,            \* the loop variable i
    currentCode,
    messageHistory,
    rlProducerInputs,   \* the message lists taskllm.invoke was called with, in order
    rlCriticInputs,     \* the prompts reflectionllm.invoke was called with, in order
    rlCritiques,        \* the critiques reflectionllm returned, in order
    rlSatisfiedAt,      \* iteration whose critique held CODE_IS_PERFECT, 0 if none
    rlFinal,            \* the code logged under FINAL RESULT
    \* --- code agent (ch09_mcp_client.ts)
    caPc,           \* position in main / runCodeAgent
    caMax,          \* the argument maxIterations
    caI,            \* the loop variable i
    previousCode,
    feedback,
    code,
    caRawCode,      \* rawCode of the current iteration
    caFeedbackText, \* feedbackText of the current iteration
    caPrompt,       \* the prompt of the last code-generating call
    caProducerCalls,    \* number of code-generating calls of the model
    caCriticCalls,      \* number of getCodeFeedback calls
    caVerdicts,         \* number of goalsMet results
    caSatisfiedAt,      \* iteration in which goalsMet returned true, 0 if none
    caSaved,            \* the file saveCodeToFile wrote
    \* --- coordinator (unnamed/part_000, and unnamed/part_001 lines 1-104)
    coPc,           \* position in main
    coReq,          \* number of the request main is at: 1 (A), 2 (B), 3 (C)
    coLog,          \* one record per coordinator invocation that ended, in order
    \* --- RAG graph (ch14_rag.ts)
    ragNode,        \* position in main / node the compiled graph runs next
    ragState,       \* the run's RAGGraphState
    ragInputs,      \* the state the current run started from
    ragPartials,    \* the partials the nodes of the current run returned, in order
    ragChainInput,  \* what ragChain.invoke was called with in the current run
    ragGenerated,   \* what ragChain.invoke returned in the current run
    ragRuns,        \* number of runQuery calls started
    \* --- parallel chains (ch03_parallelization.ts, lines 1-128)
    parPc,          \* position in main / runParallelExample
    parLlm,         \* "fake": the FakeListChatModel; "live": ChatOpenAI
    parFakeIdx,     \* index of the FakeListChatModel's next response (0-based)
    parStatus,      \* per step of mapChain: "idle", "pending", "called", "done"
    parInFlight,    \* per sibling chain: the answer of its model call, once made
    parOutput,      \* the output object of mapChain, filled as the steps complete
    parCalls,       \* the sibling chains in the order they called the model
    parCompleted,   \* the steps of mapChain in the order they completed
    parSynthInput,  \* what the synthesis prompt was invoked with, << >> before
    parResponse     \* the final response

wfVars == <<wfNode, wfState, wfPartial, wfExecuted, wfToolCalls, wfRuns, wfPrinted>>
rlVars == <<rlPc, rlLlm, rlFakeIdx, rlI, currentCode, messageHistory,
           rlProducerInputs, rlCriticInputs, rlCritiques, rlSatisfiedAt, rlFinal>>
caVars == <<caPc, caMax, caI, previousCode, feedback, code, caRawCode, caFeedbackText, caPrompt,
           caProducerCalls, caCriticCalls, caVerdicts, caSatisfiedAt, caSaved>>
coVars == <<coPc, coReq, coLog>>
ragVars == <<ragNode, ragState, ragInputs, ragPartials, ragChainInput, ragGenerated, ragRuns>>
parVars == <<parPc, parLlm, parFakeIdx, parStatus, parInFlight, parOutput,
            parCalls, parCompleted, parSynthInput, parResponse>>
\* the snake_case fallback workflow (ch03_parallelization.ts, lines 130-293)
VARIABLES swNode, swState, swExecuted, swToolCalls, swRuns, swPrinted

swVars == <<swNode, swState, swExecuted, swToolCalls, swRuns, swPrinted>>

\* the tool agent (ch05_tool.ts, lines 1-95)
VARIABLES taPc, taTask, taToolResults, taLog

taVars == <<taPc, taTask, taToolResults, taLog>>

\* the support agent (unnamed/part_001, lines 106-367)
VARIABLES saPc, saScenario, saInvoked, saLog

saVars == <<saPc, saScenario, saInvoked, saLog>>

vars == <<script, wfVars, rlVars, caVars, coVars, ragVars, parVars, swVars, taVars, saVars>>

-----------------------------------------------------------------------------
(* Bounds of the model *)

\* runSequentialAgent calls checked in one behaviour (the script makes two)
MaxRuns == 2

\* runCodeAgent is checked with maxIterations = 0 .. MaxIterationsArg and its default
MaxIterationsArg == 3

-----------------------------------------------------------------------------
(* JavaScript string operations *)

\* the character at position i (1-based) of s, as a one-character string
CharAt(s, i) == SubSeq(s, i, i)

\* String.prototype.includes
Includes(s, sub) ==
    \E i \in 1..(Len(s) - Len(sub) + 1) : SubSeq(s, i, i + Len(sub) - 1) = sub

\* white space removed by String.prototype.trim (the characters the inputs use)
WhiteSpace == {" ", "\t", "\n", "\r"}

\* String.prototype.trim: from the first to the last character that is not white space
Trim(s) ==
    LET kept == { i \in 1..Len(s) : CharAt(s, i) \notin WhiteSpace }
    IN  IF kept = {} THEN ""
        ELSE SubSeq(s, CHOOSE i \in kept : \A j \in kept : i <= j,
                       CHOOSE i \in kept : \A j \in kept : j <= i)

\* String.prototype.split with a one-character separator: the pieces between
\* the separators, in order; a string without separator is its only piece
Split(s, sep) ==
    LET at     == { i \in 1..Len(s) : CharAt(s, i) = sep }
        n      == Cardinality(at)
        Pos(k) == CHOOSE i \in at : Cardinality({ j \in at : j < i }) = k - 1
    IN  [ k \in 1..(n + 1) |->
            SubSeq(s, IF k = 1 THEN 1 ELSE Pos(k - 1) + 1,
                      IF k = n + 1 THEN Len(s) ELSE Pos(k) - 1) ]

\* Array.prototype.map
MapSeq(Op(_), seq) == [k \in 1..Len(seq) |-> Op(seq[k])]

\* Array.prototype.join
RECURSIVE Join(_, _)
Join(seq, sep) ==
    IF Len(seq) = 0 THEN ""
    ELSE IF Len(seq) = 1 THEN seq[1]
    ELSE seq[1] \o sep \o Join(Tail(seq), sep)

\* String.prototype.startsWith
StartsWith(s, prefix) == Len(s) >= Len(prefix) /\ SubSeq(s, 1, Len(prefix)) = prefix

UpperCaseLetters == "ABCDEFGHIJKLMNOPQRSTUVWXYZ"
LowerCaseLetters == "abcdefghijklmnopqrstuvwxyz"
Digits == "0123456789"

CharsOf(s) == { CharAt(s, i) : i \in 1..Len(s) }

LowerChar(c) ==
    IF c \in CharsOf(UpperCaseLetters)
    THEN CharAt(LowerCaseLetters, CHOOSE i \in 1..26 : CharAt(UpperCaseLetters, i) = c)
    ELSE c

\* the string with Op applied to each character
RECURSIVE MapChars(_, _)
MapChars(Op(_), s) ==
    IF Len(s) = 0 THEN "" ELSE Op(CharAt(s, 1)) \o MapChars(Op, SubSeq(s, 2, Len(s)))

\* String.prototype.toLowerCase
ToLowerCase(s) == MapChars(LowerChar, s)

\* String.prototype.substring(0, n)
Substring0(s, n) == SubSeq(s, 1, IF n < Len(s) THEN n ELSE Len(s))

\* the value of a variable or optional field that was never assigned
undefined == "<undefined>"

\* JavaScript truthiness of a string | undefined
Truthy(v) == v # undefined /\ v # ""

-----------------------------------------------------------------------------
(* Fallback workflow: ch12_exception.ts, lines 1-163 *)

\* queries handed to runSequentialAgent: the two of the script, the one of the
\* schema's comment, and others with no, one and two commas
Queries ==
    { "123 Fake St, Los Angeles",
      "Vague Area near Los Angeles",
      "Find 123 Fake St, Los Angeles",
      "123 Fake St",
      "Somewhere, Paris , France ",
      "Old Town,Lisbon",
      "" }

StateKeys ==
    { "query", "preciseLocationResult", "primaryLocationFailed",
      "generalAreaResult", "finalResponseMessage" }

\* LocationStateSchema applied to the caller's initial fields
LocationStateSchema(initialState) ==
    [ query                 |-> initialState.query,
      preciseLocationResult |-> undefined,
      primaryLocationFailed |-> FALSE,
      generalAreaResult     |-> undefined,
      finalResponseMessage  |-> "" ]

\* the tools: [ok |-> TRUE, value |-> ...] is a resolved promise,
\* [ok |-> FALSE, error |-> ...] a rejected one
getPreciseLocationInfo(address) ==
    IF Includes(address, "123 Fake St")
    THEN [ok |-> TRUE,
          value |-> "Precise Coordinates: 34.0522 N, 118.2437 W. Building ID: A40."]
    ELSE [ok |-> FALSE,
          error |-> "Precise lookup failed: Address not specific enough or invalid."]

getGeneralAreaInfo(city) ==
    [ok |-> TRUE,
     value |-> "General Area Info for " \o city
               \o ": Climate is moderate, nearest airport is LAX."]

\* the city fallbackHandler extracts from the query
ExtractCity(query) ==
    LET queryParts == MapSeq(Trim, Split(query, ","))
    IN  queryParts[Len(queryParts)]

\* Each node is [partial |-> the partial it returns, calls |-> its tool calls,
\* ok |-> FALSE when it rejects instead of returning]

\* primaryHandler without the try/catch: the tool's rejection leaves the node
primaryHandlerNoCatch(state) ==
    LET r == getPreciseLocationInfo(state.query)
    IN  [ ok      |-> r.ok,
          calls   |-> << <<"getPreciseLocationInfo", state.query>> >>,
          partial |-> IF r.ok
                      THEN [ preciseLocationResult |-> r.value,
                             primaryLocationFailed |-> FALSE ]
                      ELSE << >> ]

\* primaryHandler that catches the tool's failure but does not raise the flag
primaryHandlerNoFlag(state) ==
    LET r == getPreciseLocationInfo(state.query)
    IN  [ ok      |-> TRUE,
          calls   |-> << <<"getPreciseLocationInfo", state.query>> >>,
          partial |-> IF r.ok
                      THEN [ preciseLocationResult |-> r.value,
                             primaryLocationFailed |-> FALSE ]
                      ELSE [ preciseLocationResult |-> undefined,
                             primaryLocationFailed |-> FALSE ] ]

primaryHandler(state) ==
    LET r == getPreciseLocationInfo(state.query)
    IN  [ ok      |-> TRUE,
          calls   |-> << <<"getPreciseLocationInfo", state.query>> >>,
          partial |-> IF r.ok
                      THEN [ preciseLocationResult |-> r.value,
                             primaryLocationFailed |-> FALSE ]
                      ELSE [ preciseLocationResult |-> undefined,
                             primaryLocationFailed |-> TRUE ] ]

\* fallbackHandler without the test of the failure flag
fallbackHandlerAlways(state) ==
    LET city == ExtractCity(state.query)
        r    == getGeneralAreaInfo(city)
    IN  [ ok      |-> r.ok,
          calls   |-> << <<"getGeneralAreaInfo", city>> >>,
          partial |-> IF r.ok THEN [ generalAreaResult |-> r.value ]
                              ELSE << >> ]

\* fallbackHandler that also clears the failure flag it has handled
fallbackHandlerResetsFlag(state) ==
    IF state.primaryLocationFailed
    THEN LET city == ExtractCity(state.query)
             r    == getGeneralAreaInfo(city)
         IN  [ ok      |-> r.ok,
               calls   |-> << <<"getGeneralAreaInfo", city>> >>,
               partial |-> IF r.ok THEN [ generalAreaResult     |-> r.value,
                                          primaryLocationFailed |-> FALSE ]
                                   ELSE << >> ]
    ELSE [ ok |-> TRUE, calls |-> << >>, partial |-> << >> ]

fallbackHandler(state) ==
    IF state.primaryLocationFailed
    THEN LET city == ExtractCity(state.query)
             r    == getGeneralAreaInfo(city)
         IN  [ ok      |-> r.ok,
               calls   |-> << <<"getGeneralAreaInfo", city>> >>,
               partial |-> IF r.ok THEN [ generalAreaResult |-> r.value ]
                                   ELSE << >> ]
    ELSE [ ok |-> TRUE, calls |-> << >>, partial |-> << >> ]

PreciseMessage(state) ==
    "Successfully found precise location information based on your query \""
    \o state.query \o "\". Result: " \o state.preciseLocationResult

GeneralMessage(state) ==
    "Could not find the precise address, but I found general information for the area. Query: \""
    \o state.query \o "\". General Info: " \o state.generalAreaResult

ApologyMessage ==
    "I apologize, but I was unable to retrieve either precise or general location information based on your query. Please try a different query."

\* responseAgent that also returns the query, trimmed
responseAgentTrimsQuery(state) ==
    [ ok      |-> TRUE,
      calls   |-> << >>,
      partial |-> [ query |-> Trim(state.query),
                    finalResponseMessage |->
                      IF Truthy(state.preciseLocationResult)
                      THEN PreciseMessage(state)
                      ELSE IF Truthy(state.generalAreaResult)
                           THEN GeneralMessage(state)
                           ELSE ApologyMessage ] ]

responseAgent(state) ==
    [ ok      |-> TRUE,
      calls   |-> << >>,
      partial |-> [ finalResponseMessage |->
                      IF Truthy(state.preciseLocationResult)
                      THEN PreciseMessage(state)
                      ELSE IF Truthy(state.generalAreaResult)
                           THEN GeneralMessage(state)
                           ELSE ApologyMessage ] ]

\* the update of the graph state by a node's partial: keys of the partial
\* overwrite, the other keys keep their value
Merge(state, partial) ==
    [k \in DOMAIN state |-> IF k \in DOMAIN partial THEN partial[k] ELSE state[k]]

\* the edges of robustLocationWorkflow
EntryNode == "primaryHandler"

\* the edges with fallbackHandler wired to END
NextNodeSkipsResponse(node) ==
    CASE node = "primaryHandler"  -> "fallbackHandler"
      [] node = "fallbackHandler" -> "END"
      [] node = "responseAgent"   -> "END"

\* the edges with primaryHandler wired to responseAgent
NextNodeSkipsFallback(node) ==
    CASE node = "primaryHandler"  -> "responseAgent"
      [] node = "fallbackHandler" -> "responseAgent"
      [] node = "responseAgent"   -> "END"

NextNode(node) ==
    CASE node = "primaryHandler"  -> "fallbackHandler"
      [] node = "fallbackHandler" -> "responseAgent"
      [] node = "responseAgent"   -> "END"

RunNode(node, state) ==
    CASE node = "primaryHandler"  -> primaryHandler(state)
      [] node = "fallbackHandler" -> fallbackHandler(state)
      [] node = "responseAgent"   -> responseAgent(state)

WfInit ==
    /\ wfNode = "idle"
    /\ wfState = LocationStateSchema([query |-> ""])
    /\ wfPartial = << >>
    /\ wfExecuted = << >>
    /\ wfToolCalls = << >>
    /\ wfRuns = 0
    /\ wfPrinted = undefined

\* runSequentialAgent(query) on a graph that resumes the state saved under the
\* thread_id of the call
RunSequentialAgentResumesThread(query) ==
    /\ script = "fallback"
    /\ wfNode = "idle"
    /\ wfRuns < MaxRuns
    /\ wfRuns' = wfRuns + 1
    /\ wfState' = Merge(wfState, [query |-> query])
    /\ wfNode' = EntryNode
    /\ wfPartial' = << >>
    /\ wfExecuted' = << >>
    /\ wfToolCalls' = << >>
    /\ wfPrinted' = undefined
    /\ UNCHANGED <<script, taVars, saVars, swVars, parVars, ragVars, rlVars, caVars, coVars>>

\* runSequentialAgent(query) up to the invocation of the compiled graph
RunSequentialAgent(query) ==
    /\ script = "fallback"
    /\ wfNode = "idle"
    /\ wfRuns < MaxRuns
    /\ wfRuns' = wfRuns + 1
    /\ wfState' = LocationStateSchema([query |-> query])
    /\ wfNode' = EntryNode
    /\ wfPartial' = << >>
    /\ wfExecuted' = << >>
    /\ wfToolCalls' = << >>
    /\ wfPrinted' = undefined
    /\ UNCHANGED <<script, taVars, saVars, swVars, parVars, ragVars, rlVars, caVars, coVars>>

\* one step of the compiled graph: run the node, merge its partial, follow the edge
ExecuteNode ==
    /\ script = "fallback"
    /\ wfNode \in {"primaryHandler", "fallbackHandler", "responseAgent"}
    /\ LET out == RunNode(wfNode, wfState)
       IN  /\ wfExecuted' = Append(wfExecuted, wfNode)
           /\ wfToolCalls' = wfToolCalls \o out.calls
           /\ IF out.ok
              THEN /\ wfPartial' = out.partial
                   /\ wfState' = Merge(wfState, out.partial)
                   /\ wfNode' = NextNode(wfNode)
              ELSE /\ wfNode' = "rejected"
                   /\ UNCHANGED <<wfPartial, wfState>>
    /\ UNCHANGED <<script, taVars, saVars, swVars, parVars, ragVars, wfRuns, wfPrinted, rlVars, caVars, coVars>>

\* invoke resolved: runSequentialAgent logs the final message and returns
ReportFinalResult ==
    /\ script = "fallback"
    /\ wfNode = "END"
    /\ wfPrinted' = wfState.finalResponseMessage
    /\ wfNode' = "idle"
    /\ UNCHANGED <<script, taVars, saVars, swVars, parVars, ragVars, wfState, wfPartial, wfExecuted, wfToolCalls, wfRuns, rlVars, caVars, coVars>>

-----------------------------------------------------------------------------
(* Reflection loop: ch12_exception.ts, lines 165-307 *)

\* the ceiling of runReflectionLoop
maxIterations == 3

\* promptsData, loaded from src/prompts/ch04_reflection_prompts.yaml
taskPrompt == "<taskPrompt>"
refinementPrompt == "<refinementPrompt>"
reflectorPromptText == "<reflectorPrompt>"

HumanMessage(content) == [type |-> "human", content |-> content]
SystemMessage(content) == [type |-> "system", content |-> content]
AIMessage(content) == [type |-> "ai", content |-> content]

\* the responses of the FakeListChatModel that main builds without API keys
FakeResponses ==
    << "def calculate_factorial(n):\n  \"\"\"Calculates the factorial of a non-negative integer.\"\"\"\n  if n == 0:\n    return 1\n  else:\n    return n * calculate_factorial(n-1)",
       "- The code does not handle negative input. It will lead to infinite recursion. A ValueError should be raised. \\n - The docstring is a bit brief. It could be more descriptive.",
       "def calculate_factorial(n):\n  \"\"\"\n  Calculates the factorial of a non-negative integer (n!).\n\n  Args:\n    n: A non-negative integer.\n\n  Returns:\n    The factorial of n.\n\n  Raises:\n    ValueError: If the input is a negative number.\n  \"\"\"\n  if n < 0:\n    raise ValueError(\"Input must be a non-negative integer.\")\n  if n == 0:\n    return 1\n  else:\n    return n * calculate_factorial(n-1)",
       "CODE_IS_PERFECT" >>

\* a FakeListChatModel that answers every call with its first response
FakeRepeatFirstResponse(idx) == 0

\* FakeListChatModel: the response at the index, and the index after it
\* (it starts again at the first response after the last)
FakeCurrentResponse(idx) == FakeResponses[idx + 1]
FakeIncrementResponse(idx) == IF idx < Len(FakeResponses) - 1 THEN idx + 1 ELSE 0

\* what a live producer and a live critic may answer
LiveCodes ==
    { "def f(n): return 1",
      "def f(n):\n  return n * f(n-1)" }

LiveCritiques ==
    { "CODE_IS_PERFECT",
      "No issues found.\nCODE_IS_PERFECT\n",
      "- Handle negative input.",
      "The code is perfect." }

\* the contents a call of the model may return
LlmResponses(llm, idx, live) ==
    IF llm = "fake" THEN { FakeCurrentResponse(idx) } ELSE live

\* the stopping condition of the loop
CritiqueSatisfied(critique) == Includes(critique, "CODE_IS_PERFECT")

\* RlLoopHead leaving the loop one iteration early
RlLoopHeadEarly(i) == IF i < maxIterations - 1 THEN "generate" ELSE "final"

\* the for statement without its condition
RlLoopHeadUnbounded(i) == "generate"

\* the condition of the for statement: where the loop goes with counter i
RlLoopHead(i) == IF i < maxIterations THEN "generate" ELSE "final"

\* RlAfterCritique without the break
RlAfterCritiqueNoBreak(i, satisfied) == RlLoopHead(i + 1)

\* where the loop goes after the critique of iteration i + 1: break, or the
\* increment and the condition of the for statement
RlAfterCritique(i, satisfied) == IF satisfied THEN "final" ELSE RlLoopHead(i + 1)

\* the history cut down to the task and the last exchange before a refinement
RlProducerMessagesWindowed(i, history) ==
    IF i = 0 THEN history
    ELSE << history[1], history[Len(history) - 1], history[Len(history)],
            HumanMessage(refinementPrompt) >>

\* the refinement prompt put in front of the history instead of at its end
RlProducerMessagesRefinementFirst(i, history) ==
    IF i = 0 THEN history ELSE << HumanMessage(refinementPrompt) >> \o history

\* the list of messages the producer is invoked with on iteration i + 1
RlProducerMessages(i, history) ==
    IF i = 0 THEN history ELSE Append(history, HumanMessage(refinementPrompt))

\* the prompt of the reflector agent
RlReflectorPrompt(generated) ==
    << SystemMessage(reflectorPromptText),
       HumanMessage("Original Task:\n" \o taskPrompt \o "\n\nCode to Review:\n" \o generated) >>

RlCritiqueMessage(critique) ==
    HumanMessage("Critique of the previous code:\n" \o critique)

RlInit ==
    /\ rlPc = "main"
    /\ rlLlm = "fake"
    /\ rlFakeIdx = 0
    /\ rlI = 0
    /\ currentCode = ""
    /\ messageHistory = << >>
    /\ rlProducerInputs = << >>
    /\ rlCriticInputs = << >>
    /\ rlCritiques = << >>
    /\ rlSatisfiedAt = 0
    /\ rlFinal = undefined

\* main picks the models and calls runReflectionLoop, which runs up to the
\* first test of the loop condition
ReflectionMain(llm) ==
    /\ script = "reflection"
    /\ rlPc = "main"
    /\ rlLlm' = llm
    /\ rlFakeIdx' = 0
    /\ rlI' = 0
    /\ currentCode' = ""
    /\ messageHistory' = << HumanMessage(taskPrompt) >>
    /\ rlPc' = RlLoopHead(0)
    /\ UNCHANGED <<script, taVars, saVars, swVars, parVars, ragVars, wfVars, caVars, coVars, rlProducerInputs, rlCriticInputs, rlCritiques,
                   rlSatisfiedAt, rlFinal>>

\* stage 1 up to the await: taskllm.invoke(messageHistory)
RlGenerate ==
    /\ script = "reflection"
    /\ rlPc = "generate"
    /\ messageHistory' = RlProducerMessages(rlI, messageHistory)
    /\ rlProducerInputs' = Append(rlProducerInputs, messageHistory')
    /\ rlPc' = "awaitTask"
    /\ UNCHANGED <<script, taVars, saVars, swVars, parVars, ragVars, wfVars, caVars, coVars, rlLlm, rlFakeIdx, rlI, currentCode,
                   rlCriticInputs, rlCritiques, rlSatisfiedAt, rlFinal>>

\* the producer answered: stage 2 up to the await: reflectionllm.invoke(reflectorPrompt)
RlTaskResponse(content) ==
    /\ script = "reflection"
    /\ rlPc = "awaitTask"
    /\ content \in LlmResponses(rlLlm, rlFakeIdx, LiveCodes)
    /\ rlFakeIdx' = IF rlLlm = "fake" THEN FakeIncrementResponse(rlFakeIdx) ELSE rlFakeIdx
    /\ currentCode' = content
    /\ messageHistory' = Append(messageHistory, AIMessage(content))
    /\ rlCriticInputs' = Append(rlCriticInputs, RlReflectorPrompt(content))
    /\ rlPc' = "awaitCritic"
    /\ UNCHANGED <<script, taVars, saVars, swVars, parVars, ragVars, wfVars, caVars, coVars, rlLlm, rlI, rlProducerInputs, rlCritiques,
                   rlSatisfiedAt, rlFinal>>

\* the critic answered: stage 3, and the loop's increment and condition
RlCritiqueResponse(critique) ==
    /\ script = "reflection"
    /\ rlPc = "awaitCritic"
    /\ critique \in LlmResponses(rlLlm, rlFakeIdx, LiveCritiques)
    /\ rlFakeIdx' = IF rlLlm = "fake" THEN FakeIncrementResponse(rlFakeIdx) ELSE rlFakeIdx
    /\ rlCritiques' = Append(rlCritiques, critique)
    /\ rlPc' = RlAfterCritique(rlI, CritiqueSatisfied(critique))
    /\ IF CritiqueSatisfied(critique)
       THEN /\ rlSatisfiedAt' = rlI + 1
            /\ UNCHANGED <<messageHistory, rlI>>
       ELSE /\ messageHistory' = Append(messageHistory, RlCritiqueMessage(critique))
            /\ rlI' = rlI + 1
            /\ UNCHANGED rlSatisfiedAt
    /\ UNCHANGED <<script, taVars, saVars, swVars, parVars, ragVars, wfVars, caVars, coVars, rlLlm, currentCode, rlProducerInputs,
                   rlCriticInputs, rlFinal>>

\* a failed call that the loop would catch, going on to report the code so far
RlLlmFailsCaught ==
    /\ script = "reflection"
    /\ rlPc \in {"awaitTask", "awaitCritic"}
    /\ rlLlm = "live"
    /\ rlPc' = "final"
    /\ UNCHANGED <<script, taVars, saVars, swVars, parVars, ragVars, wfVars, caVars, coVars, rlLlm, rlFakeIdx, rlI, currentCode, messageHistory,
                   rlProducerInputs, rlCriticInputs, rlCritiques, rlSatisfiedAt, rlFinal>>

\* a call of a live model fails: the rejection leaves runReflectionLoop and main
RlLlmFails ==
    /\ script = "reflection"
    /\ rlPc \in {"awaitTask", "awaitCritic"}
    /\ rlLlm = "live"
    /\ rlPc' = "rejected"
    /\ UNCHANGED <<script, taVars, saVars, swVars, parVars, ragVars, wfVars, caVars, coVars, rlLlm, rlFakeIdx, rlI, currentCode, messageHistory,
                   rlProducerInputs, rlCriticInputs, rlCritiques, rlSatisfiedAt, rlFinal>>

\* after the loop: the final result is logged
RlFinalResult ==
    /\ script = "reflection"
    /\ rlPc = "final"
    /\ rlFinal' = currentCode
    /\ rlPc' = "done"
    /\ UNCHANGED <<script, taVars, saVars, swVars, parVars, ragVars, wfVars, caVars, coVars, rlLlm, rlFakeIdx, rlI, currentCode, messageHistory,
                   rlProducerInputs, rlCriticInputs, rlCritiques, rlSatisfiedAt>>

-----------------------------------------------------------------------------
(* Code agent: ch09_mcp_client.ts *)

\* the default of runCodeAgent's parameter maxIterations
DefaultMaxIterations == 5

\* the arguments of the call in main
useCaseInput1 == "Write code to find BinaryGap of a given positive integer"
goalsInput1 ==
    "Code simple to understand, Functionally correct, Handles comprehensive edge cases, Takes positive integer input only, prints the results with few examples"

\* the constant goals of runCodeAgent: goalsInput.split(",").map((g) => g.trim())
goals1 == MapSeq(Trim, Split(goalsInput1, ","))

\* what the model may answer to the four kinds of call
\* (a TLA+ string cannot hold a backquote: Fence stands for the three
\* backquotes that open and close a Markdown code block)
Fence == "~~~"

RawCodes ==
    { Fence \o "python\nprint(1)\n" \o Fence,
      "  print(2)\n",
      Fence }

FeedbackTexts ==
    { "All goals are met.",
      "Edge cases are missing.",
      "" }

GoalsMetAnswers == { "True", " true\n", "False", "True." }

Summaries == { "Binary Gap!", "gap finder_2" }

\* values of Math.floor(1000 + Math.random() * 9000)
RandomSuffixes == { "1000", "9999" }

\* goals.map((g) => `- ${g.trim()}`).join("\n")
DashItem(g) == "- " \o Trim(g)
GoalsList(goals) == Join(MapSeq(DashItem, goals), "\n")

\* generatePrompt without the feedback template
generatePromptNoFeedback(useCase, goals, prevCode, fb) ==
    << <<"generatePrompt", useCase, GoalsList(goals)>> >>
    \o (IF prevCode # "" THEN << <<"refinePrompt", prevCode>> >> ELSE << >>)
    \o << <<"endPrompt">> >>

\* generatePrompt: the prompt is the list of the rendered templates, each with
\* the values put into it
generatePrompt(useCase, goals, prevCode, fb) ==
    << <<"generatePrompt", useCase, GoalsList(goals)>> >>
    \o (IF prevCode # "" THEN << <<"refinePrompt", prevCode>> >> ELSE << >>)
    \o (IF fb # "" THEN << <<"feedbackPrompt", fb>> >> ELSE << >>)
    \o << <<"endPrompt">> >>

\* goalsMet's reading of the model's answer
GoalsMetResult(answer) == ToLowerCase(Trim(answer)) = "true"

DropLast(seq) == SubSeq(seq, 1, Len(seq) - 1)

cleanCodeBlock(c) ==
    LET lines  == Split(Trim(c), "\n")
        lines1 == IF Len(lines) > 0 /\ StartsWith(Trim(lines[1]), Fence)
                  THEN Tail(lines) ELSE lines
        lines2 == IF Len(lines1) > 0 /\ Trim(lines1[Len(lines1)]) = Fence
                  THEN DropLast(lines1) ELSE lines1
    IN  Trim(Join(lines2, "\n"))

addCommentHeader(c, useCase) ==
    "# This Python program implements the following use case:\n# "
    \o Trim(useCase) \o "\n" \o "\n" \o c

\* rawSummary.replace(/[^a-zA-Z0-9_]/g, "").replace(/ /g, "_").toLowerCase().substring(0, 10)
NameChars == CharsOf(UpperCaseLetters) \cup CharsOf(LowerCaseLetters) \cup CharsOf(Digits) \cup {"_"}
KeepNameChar(c) == IF c \in NameChars THEN c ELSE ""
SpaceToUnderscore(c) == IF c = " " THEN "_" ELSE c
ShortName(rawSummary) ==
    Substring0(ToLowerCase(MapChars(SpaceToUnderscore, MapChars(KeepNameChar, rawSummary))), 10)

\* CaLoopHead with <= for <
CaLoopHeadOffByOne(i, max) == IF i <= max THEN "generate" ELSE "save"

\* the condition of the for statement: where the loop goes with counter i
CaLoopHead(i, max) == IF i < max THEN "generate" ELSE "save"

\* where the loop goes after goalsMet of iteration i + 1: break, or the
\* increment and the condition of the for statement
CaAfterGoalsMet(i, max, met) == IF met THEN "save" ELSE CaLoopHead(i + 1, max)

CaInit ==
    /\ caPc = "main"
    /\ caMax = DefaultMaxIterations
    /\ caI = 0
    /\ previousCode = ""
    /\ feedback = ""
    /\ code = ""
    /\ caRawCode = ""
    /\ caFeedbackText = ""
    /\ caPrompt = << >>
    /\ caProducerCalls = 0
    /\ caCriticCalls = 0
    /\ caVerdicts = 0
    /\ caSatisfiedAt = 0
    /\ caSaved = undefined

\* runCodeAgent(model, useCase, goalsInput, max) up to the first test of the loop condition
RunCodeAgent(max) ==
    /\ script = "codeAgent"
    /\ caPc = "main"
    /\ caMax' = max
    /\ caI' = 0
    /\ previousCode' = ""
    /\ feedback' = ""
    /\ code' = ""
    /\ caPc' = CaLoopHead(0, max)
    /\ UNCHANGED <<script, taVars, saVars, swVars, parVars, ragVars, wfVars, rlVars, coVars, caRawCode, caFeedbackText, caPrompt, caProducerCalls,
                   caCriticCalls, caVerdicts, caSatisfiedAt, caSaved>>

\* the loop body up to the await: model.invoke(prompt)
CaGenerate ==
    /\ script = "codeAgent"
    /\ caPc = "generate"
    /\ caPrompt' = generatePrompt(useCaseInput1, goals1,
                                  previousCode, feedback)
    /\ caProducerCalls' = caProducerCalls + 1
    /\ caPc' = "awaitCode"
    /\ UNCHANGED <<script, taVars, saVars, swVars, parVars, ragVars, wfVars, rlVars, coVars, caMax, caI, previousCode, feedback, code,
                   caRawCode, caFeedbackText, caCriticCalls, caVerdicts, caSatisfiedAt, caSaved>>

\* the code arrived: it is cleaned, and getCodeFeedback runs up to its await
CaCodeResponse(rawCode) ==
    /\ script = "codeAgent"
    /\ caPc = "awaitCode"
    /\ caRawCode' = Trim(rawCode)
    /\ code' = cleanCodeBlock(Trim(rawCode))
    /\ caCriticCalls' = caCriticCalls + 1
    /\ caPc' = "awaitFeedback"
    /\ UNCHANGED <<script, taVars, saVars, swVars, parVars, ragVars, wfVars, rlVars, coVars, caMax, caI, previousCode, feedback,
                   caFeedbackText, caPrompt, caProducerCalls, caVerdicts, caSatisfiedAt,
                   caSaved>>

\* the feedback arrived: goalsMet runs up to its await
CaFeedbackResponse(text) ==
    /\ script = "codeAgent"
    /\ caPc = "awaitFeedback"
    /\ caFeedbackText' = text
    /\ caPc' = "awaitGoalsMet"
    /\ UNCHANGED <<script, taVars, saVars, swVars, parVars, ragVars, wfVars, rlVars, coVars, caMax, caI, previousCode, feedback, code,
                   caRawCode, caPrompt, caProducerCalls, caCriticCalls, caVerdicts, caSatisfiedAt,
                   caSaved>>

\* goalsMet's answer arrived, with previousCode and feedback assigned before
\* the break
CaGoalsMetResponseStoresFirst(answer) ==
    /\ script = "codeAgent"
    /\ caPc = "awaitGoalsMet"
    /\ caVerdicts' = caVerdicts + 1
    /\ caPc' = CaAfterGoalsMet(caI, caMax, GoalsMetResult(answer))
    /\ previousCode' = code
    /\ feedback' = caFeedbackText
    /\ IF GoalsMetResult(answer)
       THEN /\ caSatisfiedAt' = caI + 1
            /\ UNCHANGED caI
       ELSE /\ caI' = caI + 1
            /\ UNCHANGED caSatisfiedAt
    /\ UNCHANGED <<script, taVars, saVars, swVars, parVars, ragVars, wfVars, rlVars, coVars, caMax, code, caRawCode, caFeedbackText, caPrompt,
                   caProducerCalls, caCriticCalls, caSaved>>

\* goalsMet's answer arrived: break, or prepare the next iteration and test the
\* loop condition
CaGoalsMetResponse(answer) ==
    /\ script = "codeAgent"
    /\ caPc = "awaitGoalsMet"
    /\ caVerdicts' = caVerdicts + 1
    /\ caPc' = CaAfterGoalsMet(caI, caMax, GoalsMetResult(answer))
    /\ IF GoalsMetResult(answer)
       THEN /\ caSatisfiedAt' = caI + 1
            /\ UNCHANGED <<previousCode, feedback, caI>>
       ELSE /\ previousCode' = code
            /\ feedback' = caFeedbackText
            /\ caI' = caI + 1
            /\ UNCHANGED caSatisfiedAt
    /\ UNCHANGED <<script, taVars, saVars, swVars, parVars, ragVars, wfVars, rlVars, coVars, caMax, code, caRawCode, caFeedbackText, caPrompt,
                   caProducerCalls, caCriticCalls, caSaved>>

\* after the loop: saveCodeToFile up to its await of the summary
CaSave ==
    /\ script = "codeAgent"
    /\ caPc = "save"
    /\ caPc' = "awaitSummary"
    /\ UNCHANGED <<script, taVars, saVars, swVars, parVars, ragVars, wfVars, rlVars, coVars, caMax, caI, previousCode, feedback, code,
                   caRawCode, caFeedbackText, caPrompt, caProducerCalls, caCriticCalls, caVerdicts,
                   caSatisfiedAt, caSaved>>

\* the summary arrived: the file is written and runCodeAgent returns its path
CaSummaryResponse(rawSummary, randomSuffix) ==
    /\ script = "codeAgent"
    /\ caPc = "awaitSummary"
    /\ caSaved' = [ filename |-> ShortName(Trim(rawSummary)) \o "_" \o randomSuffix \o ".py",
                    content  |-> addCommentHeader(code, useCaseInput1) ]
    /\ caPc' = "done"
    /\ UNCHANGED <<script, taVars, saVars, swVars, parVars, ragVars, wfVars, rlVars, coVars, caMax, caI, previousCode, feedback, code,
                   caRawCode, caFeedbackText, caPrompt, caProducerCalls, caCriticCalls, caVerdicts,
                   caSatisfiedAt>>

\* a call of the model fails: the rejection leaves runCodeAgent and main
CaLlmFails ==
    /\ script = "codeAgent"
    /\ caPc \in {"awaitCode", "awaitFeedback", "awaitGoalsMet", "awaitSummary"}
    /\ caPc' = "rejected"
    /\ UNCHANGED <<script, taVars, saVars, swVars, parVars, ragVars, wfVars, rlVars, coVars, caMax, caI, previousCode, feedback, code,
                   caRawCode, caFeedbackText, caPrompt, caProducerCalls, caCriticCalls, caVerdicts,
                   caSatisfiedAt, caSaved>>

-----------------------------------------------------------------------------
(* Coordinator: unnamed/part_000 (the router's output is validated by         *)
(* routerOutputSchema) and unnamed/part_001, lines 1-104 (the predicates trim *)
(* the router's output)                                                       *)

\* the three requests of main
Requests ==
    << "Book me a flight to London.",
       "What is the capital of Italy?",
       "Tell me about quantum physics." >>

\* what the router model may answer
RouterOutputs ==
    { "booker", "info", "unclear", " info\n", "booker ", "Booker", "I think booker", "" }

\* z.enum(["booker", "info", "unclear"])
routerOutputSchema == { "booker", "info", "unclear" }

bookingHandler(request) ==
    "Booking Handler processed request: '" \o request \o "'. Result: Simulated booking action."

infoHandler(request) ==
    "Info Handler processed request: '" \o request
    \o "'. Result: Simulated information retrieval."

unclearHandler(request) ==
    "Coordinator could not delegate request: '" \o request \o "'. Please clarify."

\* coordinatorRouterChain without the parse step: the trimmed answer is passed on
coordinatorRouterChainUnvalidated(output) == [ok |-> TRUE, decision |-> Trim(output)]

\* coordinatorRouterChain of part_000 on the model's answer: the decision, or a
\* ZodError when the trimmed answer is not in the enum
coordinatorRouterChain(output) ==
    IF Trim(output) \in routerOutputSchema
    THEN [ok |-> TRUE, decision |-> Trim(output)]
    ELSE [ok |-> FALSE, decision |-> undefined]

\* coordinator_router_chain of part_001: the answer as the parser returns it
coordinator_router_chain(output) == [ok |-> TRUE, decision |-> output]

\* A branch is [invoked |-> the handlers it called, in order, output |-> the value
\* assigned to x.output]
\* delegationBranch whose second predicate is "not booker"
delegationBranchInfoCatchesAll(x) ==
    IF x.decision = "booker"
    THEN [invoked |-> <<"bookingHandler">>, output |-> bookingHandler(x.request.request)]
    ELSE IF x.decision # "booker"
    THEN [invoked |-> <<"infoHandler">>, output |-> infoHandler(x.request.request)]
    ELSE [invoked |-> <<"unclearHandler">>, output |-> unclearHandler(x.request.request)]

\* delegationBranch of part_000
delegationBranch(x) ==
    IF x.decision = "booker"
    THEN [invoked |-> <<"bookingHandler">>, output |-> bookingHandler(x.request.request)]
    ELSE IF x.decision = "info"
    THEN [invoked |-> <<"infoHandler">>, output |-> infoHandler(x.request.request)]
    ELSE [invoked |-> <<"unclearHandler">>, output |-> unclearHandler(x.request.request)]

\* delegation_branch whose default is taken only for the decision 'unclear'
delegation_branchNoDefault(x) ==
    IF Trim(x.decision) = "booker"
    THEN [invoked |-> <<"bookingHandler">>, output |-> bookingHandler(x.request.request)]
    ELSE IF Trim(x.decision) = "info"
    THEN [invoked |-> <<"infoHandler">>, output |-> infoHandler(x.request.request)]
    ELSE IF Trim(x.decision) = "unclear"
    THEN [invoked |-> <<"unclearHandler">>, output |-> unclearHandler(x.request.request)]
    ELSE [invoked |-> << >>, output |-> undefined]

\* delegation_branch whose predicates compare the decision as it stands
delegation_branchUntrimmed(x) ==
    IF x.decision = "booker"
    THEN [invoked |-> <<"bookingHandler">>, output |-> bookingHandler(x.request.request)]
    ELSE IF x.decision = "info"
    THEN [invoked |-> <<"infoHandler">>, output |-> infoHandler(x.request.request)]
    ELSE [invoked |-> <<"unclearHandler">>, output |-> unclearHandler(x.request.request)]

\* delegation_branch of part_001
delegation_branch(x) ==
    IF Trim(x.decision) = "booker"
    THEN [invoked |-> <<"bookingHandler">>, output |-> bookingHandler(x.request.request)]
    ELSE IF Trim(x.decision) = "info"
    THEN [invoked |-> <<"infoHandler">>, output |-> infoHandler(x.request.request)]
    ELSE [invoked |-> <<"unclearHandler">>, output |-> unclearHandler(x.request.request)]

\* coordinatorAgent.invoke({request}) once the router model answered
coordinatorAgent(variant, request, output) ==
    LET routed == IF variant = "coordinatorSchema"
                  THEN coordinatorRouterChain(output)
                  ELSE coordinator_router_chain(output)
        x      == [decision |-> routed.decision, request |-> [request |-> request]]
        branch == IF variant = "coordinatorSchema"
                  THEN delegationBranch(x)
                  ELSE delegation_branch(x)
    IN  IF routed.ok
        THEN [ request |-> request, answer |-> output, status |-> "resolved",
               decision |-> routed.decision, invoked |-> branch.invoked,
               result |-> branch.output ]
        ELSE [ request |-> request, answer |-> output, status |-> "rejected",
               decision |-> undefined, invoked |-> << >>, result |-> undefined ]

CoInit ==
    /\ coPc = "main"
    /\ coReq = 1
    /\ coLog = << >>

\* main: the model is built (or main returns without running anything)
CoordinatorMain(llmBuilt) ==
    /\ script \in {"coordinatorSchema", "coordinatorTrim"}
    /\ coPc = "main"
    /\ coPc' = IF llmBuilt THEN "invoke" ELSE "skipped"
    /\ UNCHANGED <<script, taVars, saVars, swVars, parVars, ragVars, wfVars, rlVars, caVars, coReq, coLog>>

\* coordinatorAgent.invoke for the request main is at, up to the router model's call
CoInvoke ==
    /\ script \in {"coordinatorSchema", "coordinatorTrim"}
    /\ coPc = "invoke"
    /\ coPc' = "awaitRouter"
    /\ UNCHANGED <<script, taVars, saVars, swVars, parVars, ragVars, wfVars, rlVars, caVars, coReq, coLog>>

\* the router model answered: the rest of the chain runs, and main goes on to
\* the next request, or ends in its catch when the chain rejected
CoRouterResponse(output) ==
    /\ script \in {"coordinatorSchema", "coordinatorTrim"}
    /\ coPc = "awaitRouter"
    /\ LET run == coordinatorAgent(script, Requests[coReq], output)
       IN  /\ coLog' = Append(coLog, run)
           /\ IF run.status = "resolved"
              THEN /\ coPc' = IF coReq < Len(Requests) THEN "invoke" ELSE "done"
                   /\ coReq' = IF coReq < Len(Requests) THEN coReq + 1 ELSE coReq
              ELSE /\ coPc' = "rejected"
                   /\ UNCHANGED coReq
    /\ UNCHANGED <<script, taVars, saVars, swVars, parVars, ragVars, wfVars, rlVars, caVars>>

\* the call of the router model fails: main ends in its catch
CoLlmFails ==
    /\ script \in {"coordinatorSchema", "coordinatorTrim"}
    /\ coPc = "awaitRouter"
    /\ coLog' = Append(coLog, [ request |-> Requests[coReq], answer |-> undefined,
                                status |-> "rejected", decision |-> undefined,
                                invoked |-> << >>, result |-> undefined ])
    /\ coPc' = "rejected"
    /\ UNCHANGED <<script, taVars, saVars, swVars, parVars, ragVars, wfVars, rlVars, caVars, coReq>>

-----------------------------------------------------------------------------
(* The RAG graph: ch14_rag.ts *)

\* the two queries main runs, in order
RagQueries == << "What did the president say about Justice Breyer",
                 "What did the president say about the economy?" >>

\* a Document, reduced to the field the nodes read
Document(pageContent) == [pageContent |-> pageContent]

\* what retriever.invoke may return
RetrievedDocuments ==
    { << >>,
      << Document("<chunk 1>") >>,
      << Document("<chunk 1>"), Document("<chunk 2>") >> }

\* what ragChain.invoke may return
Generations == { "<generation A>", "<generation B>" }

\* the graph state app.stream(inputs) starts from: the schema declares no defaults
RAGGraphStateSchema(inputs) ==
    [k \in {"question", "documents", "generation"} |->
        IF k \in DOMAIN inputs THEN inputs[k] ELSE undefined]

retrieveDocumentsNode(state, documents) ==
    [ documents |-> documents, question |-> state.question, generation |-> "" ]

PageContent(doc) == doc.pageContent

\* the variable context of generateResponseNode
RagContext(documents) == Join(MapSeq(PageContent, documents), "\n\n")

\* generateResponseNode whose partial leaves the generation out
generateResponseNodeNoGeneration(state, generation) ==
    [ documents |-> state.documents, question |-> state.question ]

generateResponseNode(state, generation) ==
    [ documents |-> state.documents, question |-> state.question, generation |-> generation ]

\* the edges START -> retrieve -> generate -> END
RagNextNode(node) ==
    CASE node = "START"    -> "retrieve"
      [] node = "retrieve" -> "generate"
      [] node = "generate" -> "END"

RagInit ==
    /\ ragNode = "main"
    /\ ragState = RAGGraphStateSchema(<< >>)
    /\ ragInputs = RAGGraphStateSchema(<< >>)
    /\ ragPartials = << >>
    /\ ragChainInput = undefined
    /\ ragGenerated = undefined
    /\ ragRuns = 0

\* main up to the first runQuery; without OPENAI_API_KEY it returns at once
RagMain(apiKeySet) ==
    /\ script = "rag"
    /\ ragNode = "main"
    /\ ragNode' = IF apiKeySet THEN "idle" ELSE "done"
    /\ UNCHANGED <<script, taVars, saVars, swVars, parVars, wfVars, rlVars, caVars, coVars,
                   ragState, ragInputs, ragPartials, ragChainInput, ragGenerated, ragRuns>>

\* runQuery(query): app.stream({ question: query })
RunQuery ==
    /\ script = "rag"
    /\ ragNode = "idle"
    /\ ragRuns < Len(RagQueries)
    /\ ragRuns' = ragRuns + 1
    /\ ragState' = RAGGraphStateSchema([question |-> RagQueries[ragRuns + 1]])
    /\ ragInputs' = ragState'
    /\ ragPartials' = << >>
    /\ ragChainInput' = undefined
    /\ ragGenerated' = undefined
    /\ ragNode' = RagNextNode("START")
    /\ UNCHANGED <<script, taVars, saVars, swVars, parVars, wfVars, rlVars, caVars, coVars>>

\* the node retrieve, with the retriever's answer
RagRetrieve(documents) ==
    /\ script = "rag"
    /\ ragNode = "retrieve"
    /\ LET partial == retrieveDocumentsNode(ragState, documents)
       IN  /\ ragPartials' = Append(ragPartials, partial)
           /\ ragState' = Merge(ragState, partial)
    /\ ragNode' = RagNextNode("retrieve")
    /\ UNCHANGED <<script, taVars, saVars, swVars, parVars, wfVars, rlVars, caVars, coVars,
                   ragInputs, ragChainInput, ragGenerated, ragRuns>>

\* the node generate up to the call of ragChain
RagGenerate ==
    /\ script = "rag"
    /\ ragNode = "generate"
    /\ ragChainInput' = [ context |-> RagContext(ragState.documents),
                          question |-> ragState.question ]
    /\ ragNode' = "awaitRagChain"
    /\ UNCHANGED <<script, taVars, saVars, swVars, parVars, wfVars, rlVars, caVars, coVars,
                   ragState, ragInputs, ragPartials, ragGenerated, ragRuns>>

\* ragChain answers; the node generate returns its partial
RagChainResponse(generation) ==
    /\ script = "rag"
    /\ ragNode = "awaitRagChain"
    /\ ragGenerated' = generation
    /\ LET partial == generateResponseNode(ragState, generation)
       IN  /\ ragPartials' = Append(ragPartials, partial)
           /\ ragState' = Merge(ragState, partial)
    /\ ragNode' = RagNextNode("generate")
    /\ UNCHANGED <<script, taVars, saVars, swVars, parVars, wfVars, rlVars, caVars, coVars,
                   ragInputs, ragChainInput, ragRuns>>

\* the stream of runQuery ends; main goes on to the next query or returns
RagQueryDone ==
    /\ script = "rag"
    /\ ragNode = "END"
    /\ ragNode' = IF ragRuns < Len(RagQueries) THEN "idle" ELSE "done"
    /\ UNCHANGED <<script, taVars, saVars, swVars, parVars, wfVars, rlVars, caVars, coVars,
                   ragState, ragInputs, ragPartials, ragChainInput, ragGenerated, ragRuns>>

\* the retriever or the model throws: the run aborts, main().catch logs the error
RagCallFails ==
    /\ script = "rag"
    /\ ragNode \in {"retrieve", "awaitRagChain"}
    /\ ragNode' = "rejected"
    /\ UNCHANGED <<script, taVars, saVars, swVars, parVars, wfVars, rlVars, caVars, coVars,
                   ragState, ragInputs, ragPartials, ragChainInput, ragGenerated, ragRuns>>

-----------------------------------------------------------------------------
(* The parallel chains: ch03_parallelization.ts, lines 1-128 *)

testTopic == "The history of space exploration"

\* the responses of the FakeListChatModel main builds
ParFakeResponses ==
    << "A concise summary of space exploration.",
       "1. What was the Space Race? 2. Who was the first person in space? 3. What is the future of space exploration?",
       "NASA, Sputnik, Apollo, Space Race, ISS",
       "A synthesized answer about the history of space exploration, combining the summary, questions, and key terms." >>

\* FakeListChatModel: _currentResponse and _incrementResponse
ParFakeCurrentResponse(idx) == ParFakeResponses[idx + 1]
ParFakeIncrementResponse(idx) == IF idx < Len(ParFakeResponses) - 1 THEN idx + 1 ELSE 0

\* what ChatOpenAI may answer
ParLiveResponses == { "<answer A>", "<answer B>" }

\* what the model may answer to the call it receives next
ParLlmResponses == IF parLlm = "fake" THEN {ParFakeCurrentResponse(parFakeIdx)} ELSE ParLiveResponses

\* the steps of mapChain that are chains calling the model, and all its steps
ParChains == {"summary", "questions", "keyTerms"}
ParKeys == ParChains \cup {"topic"}

\* the join released as soon as one step has completed
JoinReadyAny(status) == \E k \in ParKeys : status[k] = "done"

\* mapChain.pipe(synthesisPrompt): RunnableParallel resolves, and the next step
\* of the sequence starts, once every step of the map has resolved
JoinReady(status) == \A k \in ParKeys : status[k] = "done"

ParInit ==
    /\ parPc = "main"
    /\ parLlm = "fake"
    /\ parFakeIdx = 0
    /\ parStatus = [k \in ParKeys |-> "idle"]
    /\ parInFlight = [k \in ParChains |-> undefined]
    /\ parOutput = [k \in ParKeys |-> undefined]
    /\ parCalls = << >>
    /\ parCompleted = << >>
    /\ parSynthInput = << >>
    /\ parResponse = undefined

\* main builds the model; runParallelExample invokes fullParallelChain, whose
\* first step mapChain starts all its steps
ParallelMain(llm) ==
    /\ script = "parallel"
    /\ parPc = "main"
    /\ parLlm' = llm
    /\ parStatus' = [k \in ParKeys |-> "pending"]
    /\ parPc' = "map"
    /\ UNCHANGED <<script, taVars, saVars, swVars, wfVars, rlVars, caVars, coVars, ragVars,
                   parFakeIdx, parInFlight, parOutput, parCalls, parCompleted,
                   parSynthInput, parResponse>>

\* the sibling chain k formats its prompt and calls the model
ParChainCall(k, content) ==
    /\ script = "parallel"
    /\ parPc = "map"
    /\ parStatus[k] = "pending"
    /\ parStatus' = [parStatus EXCEPT ![k] = "called"]
    /\ parInFlight' = [parInFlight EXCEPT ![k] = content]
    /\ parFakeIdx' = IF parLlm = "fake" THEN ParFakeIncrementResponse(parFakeIdx) ELSE parFakeIdx
    /\ parCalls' = Append(parCalls, k)
    /\ UNCHANGED <<script, taVars, saVars, swVars, wfVars, rlVars, caVars, coVars, ragVars,
                   parPc, parLlm, parOutput, parCompleted, parSynthInput, parResponse>>

\* the model call of the sibling chain k returns; the parser's output is
\* stored under the key k
ParChainComplete(k) ==
    /\ script = "parallel"
    /\ parPc = "map"
    /\ parStatus[k] = "called"
    /\ parStatus' = [parStatus EXCEPT ![k] = "done"]
    /\ parOutput' = [parOutput EXCEPT ![k] = parInFlight[k]]
    /\ parCompleted' = Append(parCompleted, k)
    /\ UNCHANGED <<script, taVars, saVars, swVars, wfVars, rlVars, caVars, coVars, ragVars,
                   parPc, parLlm, parFakeIdx, parInFlight, parCalls, parSynthInput, parResponse>>

\* the step topic: (input) => input.topic
ParTopic ==
    /\ script = "parallel"
    /\ parPc = "map"
    /\ parStatus["topic"] = "pending"
    /\ parStatus' = [parStatus EXCEPT !["topic"] = "done"]
    /\ parOutput' = [parOutput EXCEPT !["topic"] = testTopic]
    /\ parCompleted' = Append(parCompleted, "topic")
    /\ UNCHANGED <<script, taVars, saVars, swVars, wfVars, rlVars, caVars, coVars, ragVars,
                   parPc, parLlm, parFakeIdx, parInFlight, parCalls, parSynthInput, parResponse>>

\* mapChain has resolved: the synthesis prompt is formatted from its output
\* and the model is called
ParSynthesize ==
    /\ script = "parallel"
    /\ parPc = "map"
    /\ JoinReady(parStatus)
    /\ parSynthInput' = parOutput
    /\ parPc' = "awaitSynthesis"
    /\ UNCHANGED <<script, taVars, saVars, swVars, wfVars, rlVars, caVars, coVars, ragVars,
                   parLlm, parFakeIdx, parStatus, parInFlight, parOutput, parCalls,
                   parCompleted, parResponse>>

\* the model answers the synthesis call; the response is logged
ParSynthesisResponse(content) ==
    /\ script = "parallel"
    /\ parPc = "awaitSynthesis"
    /\ parResponse' = content
    /\ parFakeIdx' = IF parLlm = "fake" THEN ParFakeIncrementResponse(parFakeIdx) ELSE parFakeIdx
    /\ parPc' = "done"
    /\ UNCHANGED <<script, taVars, saVars, swVars, wfVars, rlVars, caVars, coVars, ragVars,
                   parLlm, parStatus, parInFlight, parOutput, parCalls, parCompleted,
                   parSynthInput>>

\* a call of the live model throws: fullParallelChain.invoke rejects and the
\* catch of runParallelExample logs the error
ParLlmFails ==
    /\ script = "parallel"
    /\ parLlm = "live"
    /\ \/ parPc = "map" /\ \E k \in ParChains : parStatus[k] = "called"
       \/ parPc = "awaitSynthesis"
    /\ parPc' = "failed"
    /\ UNCHANGED <<script, taVars, saVars, swVars, wfVars, rlVars, caVars, coVars, ragVars,
                   parLlm, parFakeIdx, parStatus, parInFlight, parOutput, parCalls,
                   parCompleted, parSynthInput, parResponse>>

-----------------------------------------------------------------------------
(* The snake_case fallback workflow: ch03_parallelization.ts, lines 130-293 *)

\* LocationState applied to the caller's initial fields
LocationState(initialState) ==
    [ query                   |-> initialState.query,
      precise_location_result |-> undefined,
      primary_location_failed |-> FALSE,
      general_area_result     |-> undefined,
      final_response_message  |-> "" ]

get_precise_location_info(address) ==
    IF Includes(address, "123 Fake St")
    THEN [ok |-> TRUE,
          value |-> "Precise Coordinates: 34.0522 N, 118.2437 W. Building ID: A40."]
    ELSE [ok |-> FALSE,
          error |-> "Precise lookup failed: Address not specific enough or invalid."]

get_general_area_info(city) ==
    [ok |-> TRUE,
     value |-> "General Area Info for " \o city
               \o ": Climate is moderate, nearest airport is LAX."]

primary_handler(state) ==
    LET r == get_precise_location_info(state.query)
    IN  [ ok      |-> TRUE,
          calls   |-> << <<"get_precise_location_info", state.query>> >>,
          partial |-> IF r.ok
                      THEN [ precise_location_result |-> r.value,
                             primary_location_failed |-> FALSE ]
                      ELSE [ precise_location_result |-> undefined,
                             primary_location_failed |-> TRUE ] ]

\* fallback_handler that takes the last part of the query as it stands
fallback_handlerUntrimmed(state) ==
    IF state.primary_location_failed
    THEN LET queryParts == Split(state.query, ",")
             city       == queryParts[Len(queryParts)]
             r          == get_general_area_info(city)
         IN  [ ok      |-> r.ok,
               calls   |-> << <<"get_general_area_info", city>> >>,
               partial |-> IF r.ok THEN [ general_area_result |-> r.value ]
                                   ELSE << >> ]
    ELSE [ ok |-> TRUE, calls |-> << >>, partial |-> << >> ]

fallback_handler(state) ==
    IF state.primary_location_failed
    THEN LET queryParts == MapSeq(Trim, Split(state.query, ","))
             city       == queryParts[Len(queryParts)]
             r          == get_general_area_info(city)
         IN  [ ok      |-> r.ok,
               calls   |-> << <<"get_general_area_info", city>> >>,
               partial |-> IF r.ok THEN [ general_area_result |-> r.value ]
                                   ELSE << >> ]
    ELSE [ ok |-> TRUE, calls |-> << >>, partial |-> << >> ]

response_agent(state) ==
    [ ok      |-> TRUE,
      calls   |-> << >>,
      partial |-> [ final_response_message |->
                      IF Truthy(state.precise_location_result)
                      THEN "Successfully found precise location information based on your query \""
                           \o state.query \o "\". Result: " \o state.precise_location_result
                      ELSE IF Truthy(state.general_area_result)
                           THEN "Could not find the precise address, but I found general information for the area. Query: \""
                                \o state.query \o "\". General Info: "
                                \o state.general_area_result
                           ELSE "I apologize, but I was unable to retrieve either precise or general location information based on your query. Please try a different query." ] ]

\* setEntryPoint and setFinishPoint of the workflow
EntryPoint == "primary_handler"
FinishPoint == "response_agent"

\* the edges of the workflow, the one to END being that of the finish point
next_node(node) ==
    IF node = FinishPoint THEN "END"
    ELSE CASE node = "primary_handler"  -> "fallback_handler"
           [] node = "fallback_handler" -> "response_agent"

run_node(node, state) ==
    CASE node = "primary_handler"  -> primary_handler(state)
      [] node = "fallback_handler" -> fallback_handler(state)
      [] node = "response_agent"   -> response_agent(state)

SwInit ==
    /\ swNode = "idle"
    /\ swState = LocationState([query |-> ""])
    /\ swExecuted = << >>
    /\ swToolCalls = << >>
    /\ swRuns = 0
    /\ swPrinted = undefined

\* runSequentialAgent(query) up to the invocation of the compiled graph
run_sequential_agent(query) ==
    /\ script = "fallbackSnake"
    /\ swNode = "idle"
    /\ swRuns < MaxRuns
    /\ swRuns' = swRuns + 1
    /\ swState' = LocationState([query |-> query])
    /\ swNode' = EntryPoint
    /\ swExecuted' = << >>
    /\ swToolCalls' = << >>
    /\ swPrinted' = undefined
    /\ UNCHANGED <<script, taVars, saVars, wfVars, rlVars, caVars, coVars, ragVars, parVars>>

\* one node of the compiled graph runs and its partial is merged
execute_node ==
    /\ script = "fallbackSnake"
    /\ swNode \in {"primary_handler", "fallback_handler", "response_agent"}
    /\ LET out == run_node(swNode, swState)
       IN  /\ swExecuted' = Append(swExecuted, swNode)
           /\ swToolCalls' = swToolCalls \o out.calls
           /\ IF out.ok
              THEN /\ swState' = Merge(swState, out.partial)
                   /\ swNode' = next_node(swNode)
              ELSE /\ swNode' = "rejected"
                   /\ UNCHANGED swState
    /\ UNCHANGED <<script, taVars, saVars, wfVars, rlVars, caVars, coVars, ragVars, parVars, swRuns, swPrinted>>

\* invoke resolved: runSequentialAgent logs the final message and returns
report_final_result ==
    /\ script = "fallbackSnake"
    /\ swNode = "END"
    /\ swPrinted' = swState.final_response_message
    /\ swNode' = "idle"
    /\ UNCHANGED <<script, taVars, saVars, wfVars, rlVars, caVars, coVars, ragVars, parVars, swState, swExecuted, swToolCalls, swRuns>>

-----------------------------------------------------------------------------
(* The tool agent: ch05_tool.ts, lines 1-95 *)

\* calls of search_information in one invocation of the agent, at most
MaxToolCalls == 1

simulatedResults ==
    ( "weather in london" :>
        "The weather in London is currently cloudy with a temperature of 15°C." )
    @@ ( "capital of france" :> "The capital of France is Paris." )
    @@ ( "population of earth" :>
           "The estimated population of Earth is around 8 billion people." )
    @@ ( "tallest mountain" :> "Mount Everest is the tallest mountain above sea level." )

searchInformationTool(query) ==
    LET key == ToLowerCase(query)
    IN  IF key \in DOMAIN simulatedResults
        THEN simulatedResults[key]
        ELSE "Simulated search result for '" \o query
             \o "': No specific information found, but the topic seems interesting."

\* the queries the model may hand to the tool
ToolQueries == { "Capital of France", "weather in London?", "dogs" }

\* the queries of the tasks of main, in order
tasks ==
    << "What is the capital of France?",
       "What's the weather like in London?",
       "Tell me something about dogs." >>

\* what the last message of the agent may say: a tool result, or the model's own words
TaAnswers ==
    { searchInformationTool(q) : q \in ToolQueries } \cup { "I could not find that." }

\* the for loop of main after the task at an index
TaAfterTask(task) == IF task < Len(tasks) THEN "task" ELSE "done"

TaInit ==
    /\ taPc = "main"
    /\ taTask = 1
    /\ taToolResults = << >>
    /\ taLog = << >>

\* main up to the first task of its loop
ToolAgentMain ==
    /\ script = "toolAgent"
    /\ taPc = "main"
    /\ taPc' = "task"
    /\ UNCHANGED <<script, wfVars, rlVars, caVars, coVars, ragVars, parVars, swVars, saVars,
                   taTask, taToolResults, taLog>>

\* runAgentWithTool up to the invocation of the agent
runAgentWithTool ==
    /\ script = "toolAgent"
    /\ taPc = "task"
    /\ taToolResults' = << >>
    /\ taPc' = "awaitAgent"
    /\ UNCHANGED <<script, wfVars, rlVars, caVars, coVars, ragVars, parVars, swVars, saVars,
                   taTask, taLog>>

\* the agent calls search_information
TaToolCalled(toolQuery) ==
    /\ script = "toolAgent"
    /\ taPc = "awaitAgent"
    /\ Len(taToolResults) < MaxToolCalls
    /\ taToolResults' = Append(taToolResults, searchInformationTool(toolQuery))
    /\ UNCHANGED <<script, wfVars, rlVars, caVars, coVars, ragVars, parVars, swVars, saVars,
                   taPc, taTask, taLog>>

\* the invocation resolved: the last message is logged and the loop goes on
TaAgentResponds(content) ==
    /\ script = "toolAgent"
    /\ taPc = "awaitAgent"
    /\ taLog' = Append(taLog, [ query |-> tasks[taTask], status |-> "response",
                                logged |-> content ])
    /\ taPc' = TaAfterTask(taTask)
    /\ taTask' = IF taTask < Len(tasks) THEN taTask + 1 ELSE taTask
    /\ UNCHANGED <<script, wfVars, rlVars, caVars, coVars, ragVars, parVars, swVars, saVars,
                   taToolResults>>

\* an invocation whose rejection leaves runAgentWithTool and ends main
TaAgentFailsUncaught ==
    /\ script = "toolAgent"
    /\ taPc = "awaitAgent"
    /\ taLog' = Append(taLog, [ query |-> tasks[taTask], status |-> "error",
                                logged |-> undefined ])
    /\ taPc' = "rejected"
    /\ UNCHANGED <<script, wfVars, rlVars, caVars, coVars, ragVars, parVars, swVars, saVars,
                   taTask, taToolResults>>

\* the invocation rejected: the catch of runAgentWithTool logs the error and
\* the loop goes on
TaAgentFails ==
    /\ script = "toolAgent"
    /\ taPc = "awaitAgent"
    /\ taLog' = Append(taLog, [ query |-> tasks[taTask], status |-> "error",
                                logged |-> undefined ])
    /\ taPc' = TaAfterTask(taTask)
    /\ taTask' = IF taTask < Len(tasks) THEN taTask + 1 ELSE taTask
    /\ UNCHANGED <<script, wfVars, rlVars, caVars, coVars, ragVars, parVars, swVars, saVars,
                   taToolResults>>

-----------------------------------------------------------------------------
(* The support agent: unnamed/part_001, lines 106-367 *)

customerData ==
    [ name             |-> "Alex Johnson",
      tier             |-> "Premium",
      recent_purchases |-> << "Zeta Headset Pro", "Gamma Gaming Mouse" >>,
      support_history  |-> "Had an issue with Zeta Headset (Ticket TICKET-8822) 2 months ago, which was resolved by a firmware update." ]

\* initialMessage1 and initialMessage2 of main
initialMessages ==
    << "My new Gamma Gaming Mouse suddenly stopped connecting to my PC. I can't figure out why.",
       "The Zeta Headset Pro you sent me is defective. I want to speak to a human supervisor immediately to process a full refund and replacement." >>

\* a || b on strings
OrElse(a, b) == IF Truthy(a) THEN a ELSE b

\* the personalization note: the template and the values of its placeholders
personalizationNote(customerInfo) ==
    SystemMessage(<< "personalizationContext",
                     OrElse(customerInfo.name, "valued customer"),
                     OrElse(customerInfo.tier, "standard"),
                     OrElse(Join(customerInfo.recent_purchases, ", "), "None"),
                     OrElse(customerInfo.support_history, "None available.") >>)

\* the messages runSupportAgent invokes the agent with
SupportAgentInput(customerInfo, messages) ==
    << personalizationNote(customerInfo), SystemMessage(<<"baseInstruction">>) >>
    \o SubSeq(messages, 1, Len(messages) - 1)
    \o << HumanMessage(messages[Len(messages)].content) >>

\* the messages of a result: none, or ending with the agent's answer
AgentResults ==
    { << >>,
      << AIMessage("Please check power, connectivity, and firmware version.") >>,
      << AIMessage("") >> }

\* what runSupportAgent returns for the messages of a result
SupportAgentResponse(messages) ==
    IF Len(messages) > 0 THEN messages[Len(messages)].content
                         ELSE "No response from agent."

SaInit ==
    /\ saPc = "main"
    /\ saScenario = 1
    /\ saInvoked = << >>
    /\ saLog = << >>

\* main up to the try block of scenario 1
SupportMain ==
    /\ script = "supportAgent"
    /\ saPc = "main"
    /\ saPc' = "scenario"
    /\ UNCHANGED <<script, wfVars, rlVars, caVars, coVars, ragVars, parVars, swVars, taVars,
                   saScenario, saInvoked, saLog>>

\* runSupportAgent up to the invocation of the agent
runSupportAgent ==
    /\ script = "supportAgent"
    /\ saPc = "scenario"
    /\ saInvoked' = SupportAgentInput(customerData,
                                      << HumanMessage(initialMessages[saScenario]) >>)
    /\ saPc' = "awaitAgent"
    /\ UNCHANGED <<script, wfVars, rlVars, caVars, coVars, ragVars, parVars, swVars, taVars,
                   saScenario, saLog>>

\* the invocation resolved: main logs the final response of the scenario
SaAgentResponds(messages) ==
    /\ script = "supportAgent"
    /\ saPc = "awaitAgent"
    /\ saLog' = Append(saLog, [ scenario |-> saScenario, status |-> "response",
                                logged |-> SupportAgentResponse(messages) ])
    /\ saPc' = IF saScenario < Len(initialMessages) THEN "scenario" ELSE "done"
    /\ saScenario' = IF saScenario < Len(initialMessages) THEN saScenario + 1 ELSE saScenario
    /\ UNCHANGED <<script, wfVars, rlVars, caVars, coVars, ragVars, parVars, swVars, taVars,
                   saInvoked>>

\* the invocation rejected: the catch of the scenario logs the error
SaAgentFails ==
    /\ script = "supportAgent"
    /\ saPc = "awaitAgent"
    /\ saLog' = Append(saLog, [ scenario |-> saScenario, status |-> "error",
                                logged |-> undefined ])
    /\ saPc' = IF saScenario < Len(initialMessages) THEN "scenario" ELSE "done"
    /\ saScenario' = IF saScenario < Len(initialMessages) THEN saScenario + 1 ELSE saScenario
    /\ UNCHANGED <<script, wfVars, rlVars, caVars, coVars, ragVars, parVars, swVars, taVars,
                   saInvoked>>

-----------------------------------------------------------------------------
Scripts == {"fallback", "reflection", "codeAgent", "coordinatorSchema", "coordinatorTrim",
            "rag", "parallel", "fallbackSnake", "toolAgent", "supportAgent"}

Init ==
    /\ script \in Scripts
    /\ WfInit
    /\ RlInit
    /\ CaInit
    /\ CoInit
    /\ RagInit
    /\ ParInit
    /\ SwInit
    /\ TaInit
    /\ SaInit

\* the steps in which every call of a model, retriever or tool returns
CallsReturn ==
    \/ \E q \in Queries : RunSequentialAgent(q)
    \/ ExecuteNode
    \/ ReportFinalResult
    \/ \E llm \in {"fake", "live"} : ReflectionMain(llm)
    \/ RlGenerate
    \/ \E content \in LiveCodes \cup {FakeCurrentResponse(rlFakeIdx)} : RlTaskResponse(content)
    \/ \E critique \in LiveCritiques \cup {FakeCurrentResponse(rlFakeIdx)} : RlCritiqueResponse(critique)
    \/ RlFinalResult
    \/ \E max \in (0..MaxIterationsArg) \cup {DefaultMaxIterations} : RunCodeAgent(max)
    \/ CaGenerate
    \/ \E rawCode \in RawCodes : CaCodeResponse(rawCode)
    \/ \E text \in FeedbackTexts : CaFeedbackResponse(text)
    \/ \E answer \in GoalsMetAnswers : CaGoalsMetResponse(answer)
    \/ CaSave
    \/ \E rawSummary \in Summaries, suffix \in RandomSuffixes : CaSummaryResponse(rawSummary, suffix)
    \/ \E llmBuilt \in BOOLEAN : CoordinatorMain(llmBuilt)
    \/ CoInvoke
    \/ \E output \in RouterOutputs : CoRouterResponse(output)
    \/ \E apiKeySet \in BOOLEAN : RagMain(apiKeySet)
    \/ RunQuery
    \/ \E documents \in RetrievedDocuments : RagRetrieve(documents)
    \/ RagGenerate
    \/ \E generation \in Generations : RagChainResponse(generation)
    \/ RagQueryDone
    \/ \E llm \in {"fake", "live"} : ParallelMain(llm)
    \/ \E k \in ParChains, content \in ParLlmResponses : ParChainCall(k, content)
    \/ \E k \in ParChains : ParChainComplete(k)
    \/ ParTopic
    \/ ParSynthesize
    \/ \E content \in ParLlmResponses : ParSynthesisResponse(content)
    \/ \E q \in Queries : run_sequential_agent(q)
    \/ execute_node
    \/ report_final_result
    \/ ToolAgentMain
    \/ runAgentWithTool
    \/ \E toolQuery \in ToolQueries : TaToolCalled(toolQuery)
    \/ \E content \in TaAnswers : TaAgentResponds(content)
    \/ SupportMain
    \/ runSupportAgent
    \/ \E messages \in AgentResults : SaAgentResponds(messages)

\* the steps in which a call throws
CallFails ==
    \/ RlLlmFails
    \/ CaLlmFails
    \/ CoLlmFails
    \/ RagCallFails
    \/ ParLlmFails
    \/ TaAgentFails
    \/ SaAgentFails

Next == CallsReturn \/ CallFails

Spec == Init /\ [][Next]_vars

\* the steps of the two refinement loops as main calls them (runCodeAgent with
\* the default ceiling), up to the step that follows the loop (FINAL RESULT in
\* runReflectionLoop, saveCodeToFile in runCodeAgent), in which every call of
\* the model returns
RefinementReturns ==
    \/ \E llm \in {"fake", "live"} : ReflectionMain(llm)
    \/ RlGenerate
    \/ \E content \in LiveCodes \cup {FakeCurrentResponse(rlFakeIdx)} : RlTaskResponse(content)
    \/ \E critique \in LiveCritiques \cup {FakeCurrentResponse(rlFakeIdx)} : RlCritiqueResponse(critique)
    \/ RlFinalResult
    \/ RunCodeAgent(DefaultMaxIterations)
    \/ CaGenerate
    \/ \E rawCode \in RawCodes : CaCodeResponse(rawCode)
    \/ \E text \in FeedbackTexts : CaFeedbackResponse(text)
    \/ \E answer \in GoalsMetAnswers : CaGoalsMetResponse(answer)
    \/ CaSave

RefinementInit == Init /\ script \in {"reflection", "codeAgent"}

\* the runs of the refinement loops in which every call returns: a call that
\* was made is answered, and the event loop then runs the continuation that
\* awaits it
ReturningSpec == RefinementInit /\ [][RefinementReturns]_vars /\ WF_vars(RefinementReturns)

-----------------------------------------------------------------------------
(* Properties of the refinement loops *)

\* C1: the producer is invoked at most maxIterations times in one run of
\* runReflectionLoop (maxIterations = 3) and of runCodeAgent (maxIterations = N),
\* whatever the critic returns.
C1_BoundedRefinement ==
    /\ Len(rlProducerInputs) <= maxIterations
    /\ caProducerCalls <= caMax

\* a run of runCodeAgent with the default ceiling that the critic never
\* accepted: it ended after as many producer calls as the ceiling allows
C1_Witness ==
    /\ caPc = "done"
    /\ caMax = DefaultMaxIterations
    /\ caSatisfiedAt = 0
    /\ caProducerCalls = caMax

\* C2: when the critic is satisfied on iteration 1, the loop has ended after
\* exactly one producer call and one critic evaluation, and the producer is
\* never called a second time.
C2_EarlySatisfaction ==
    /\ rlSatisfiedAt = 1 =>
          /\ rlPc \in {"final", "done"}
          /\ Len(rlProducerInputs) = 1
          /\ Len(rlCriticInputs) = 1
          /\ Len(rlCritiques) = 1
    /\ caSatisfiedAt = 1 =>
          /\ caPc \in {"save", "awaitSummary", "done", "rejected"}
          /\ caProducerCalls = 1
          /\ caCriticCalls = 1
          /\ caVerdicts = 1

\* runReflectionLoop has logged its final result after a first critique that
\* held CODE_IS_PERFECT
C2_Witness ==
    /\ rlPc = "done"
    /\ rlSatisfiedAt = 1
    /\ rlLlm = "live"

\* the content of the last message of the producer in a history
LastGenerated(history) ==
    LET ai == { k \in 1..Len(history) : history[k].type = "ai" }
    IN  history[CHOOSE k \in ai : \A j \in ai : j <= k].content

\* the steps in which a critic evaluation ends
RlCriticStep == rlPc = "awaitCritic" /\ rlPc' \notin {"awaitCritic", "rejected"}
CaCriticStep == caPc = "awaitGoalsMet" /\ caPc' \notin {"awaitGoalsMet", "rejected"}

\* C3 for runReflectionLoop
C3_ReflectionStop ==
    /\ RlCriticStep =>
         LET critique  == rlCritiques'[Len(rlCritiques')]
             iteration == rlI + 1
         IN  /\ rlPc' \in {"final", "generate"}
             /\ rlPc' = "final" <=>
                   (CritiqueSatisfied(critique) \/ iteration = maxIterations)
             /\ rlPc' = "final" =>
                   /\ currentCode' = LastGenerated(messageHistory')
                   /\ currentCode' = currentCode
             /\ ~CritiqueSatisfied(critique) =>
                   /\ rlI' = rlI + 1
                   /\ messageHistory' = Append(messageHistory, RlCritiqueMessage(critique))
    \* the next call of the producer gets the history that ends with the
    \* critique and the refinement prompt
    /\ (rlPc = "generate" /\ rlPc' = "awaitTask" /\ rlI > 0) =>
         LET input == rlProducerInputs'[Len(rlProducerInputs')]
         IN  /\ Len(input) >= 2
             /\ input[Len(input) - 1] = RlCritiqueMessage(rlCritiques[Len(rlCritiques)])
    \* the code logged as the final result is the last one generated
    /\ (rlPc = "final" /\ rlPc' = "done") => rlFinal' = LastGenerated(messageHistory)

\* C3 for runCodeAgent
C3_CodeAgentStop ==
    /\ CaCriticStep =>
         LET satisfied == caSatisfiedAt' = caI + 1
             iteration == caI + 1
         IN  /\ caPc' \in {"save", "generate"}
             /\ caPc' = "save" <=> (satisfied \/ iteration = caMax)
             /\ caPc' = "save" =>
                   /\ code' = cleanCodeBlock(caRawCode)
                   /\ code' = code
             /\ ~satisfied =>
                   /\ caI' = caI + 1
                   /\ feedback' = caFeedbackText
                   /\ previousCode' = code
    \* the next call of the producer gets a prompt made with that feedback
    /\ (caPc = "generate" /\ caPc' = "awaitCode" /\ caI > 0) =>
         /\ feedback = caFeedbackText
         /\ caFeedbackText # "" =>
               \E k \in 1..Len(caPrompt') : caPrompt'[k] = <<"feedbackPrompt", caFeedbackText>>
    \* the code written to the file is the last one generated
    /\ (caPc = "awaitSummary" /\ caPc' = "done" /\ caProducerCalls > 0) =>
         caSaved'.content = addCommentHeader(cleanCodeBlock(caRawCode), useCaseInput1)

-----------------------------------------------------------------------------
(* Properties of the fallback workflow *)

NodeOrder == << "primaryHandler", "fallbackHandler", "responseAgent" >>

\* the tools called in this run
ToolsCalled == { wfToolCalls[k][1] : k \in 1..Len(wfToolCalls) }

\* the graph has run all its nodes for the query of this run
WfCompleted == wfNode = "END"

\* C4: for the query "Vague Area near Los Angeles" the primary lookup fails, the
\* final state has primaryLocationFailed = true, fallbackHandler populates
\* generalAreaResult by calling the general-area tool with the extracted city
\* "Los Angeles", and finalResponseMessage is built from the general result.
C4_VagueAreaUsesCity ==
    (WfCompleted /\ wfState.query = "Vague Area near Los Angeles") =>
        /\ wfState.primaryLocationFailed = TRUE
        /\ wfToolCalls = << <<"getPreciseLocationInfo", wfState.query>>,
                            <<"getGeneralAreaInfo", "Los Angeles">> >>
        /\ wfState.generalAreaResult = getGeneralAreaInfo("Los Angeles").value
        /\ wfState.finalResponseMessage = GeneralMessage(wfState)

\* C5: for every query on which the primary lookup succeeds the final state has
\* preciseLocationResult set, generalAreaResult unset and primaryLocationFailed
\* false, the general-area tool is never invoked, and finalResponseMessage is
\* built from the precise result.
C5_PrimarySuccess ==
    (wfRuns > 0 /\ Includes(wfState.query, "123 Fake St")) =>
        /\ "getGeneralAreaInfo" \notin ToolsCalled
        /\ WfCompleted =>
              /\ wfState.preciseLocationResult =
                    "Precise Coordinates: 34.0522 N, 118.2437 W. Building ID: A40."
              /\ wfState.generalAreaResult = undefined
              /\ wfState.primaryLocationFailed = FALSE
              /\ wfState.finalResponseMessage = PreciseMessage(wfState)

\* the run for the first query of the script has completed
C5_Witness ==
    /\ WfCompleted
    /\ wfState.query = "123 Fake St, Los Angeles"
    /\ wfExecuted = NodeOrder

\* C6: when the precise-lookup tool fails, primaryHandler returns a partial with
\* primaryLocationFailed = true and preciseLocationResult unset; the run does
\* not abort and continues to fallbackHandler.
C6_FailureIsStateField ==
    (wfExecuted = <<"primaryHandler">> /\ ~getPreciseLocationInfo(wfState.query).ok) =>
        /\ wfPartial = [ preciseLocationResult |-> undefined,
                         primaryLocationFailed |-> TRUE ]
        /\ wfState.primaryLocationFailed = TRUE
        /\ wfState.preciseLocationResult = undefined
        /\ wfNode = "fallbackHandler"

\* primaryHandler has run on the second query of the script, whose lookup fails
C6_Witness ==
    /\ wfExecuted = <<"primaryHandler">>
    /\ wfState.query = "Vague Area near Los Angeles"
    /\ wfToolCalls = << <<"getPreciseLocationInfo", "Vague Area near Los Angeles">> >>

\* C9: every run executes primaryHandler, then fallbackHandler, then
\* responseAgent, each exactly once and in that order, whether or not the
\* primary lookup succeeded; no node is executed again and none after the end.
C9_FixedOrder ==
    /\ Len(wfExecuted) <= Len(NodeOrder)
    /\ wfExecuted = SubSeq(NodeOrder, 1, Len(wfExecuted))
    /\ wfNode \in {"primaryHandler", "fallbackHandler", "responseAgent"} =>
          /\ Len(wfExecuted) < Len(NodeOrder)
          /\ wfNode = NodeOrder[Len(wfExecuted) + 1]
    /\ (wfNode = "END" \/ wfPrinted # undefined) => wfExecuted = NodeOrder
    /\ (wfNode = "idle" /\ wfRuns > 0) => wfPrinted # undefined
    /\ wfNode # "rejected"

\* a run whose primary lookup failed has reached the end
C9_Witness ==
    /\ wfNode = "END"
    /\ wfState.primaryLocationFailed = TRUE
    /\ wfExecuted = NodeOrder

\* the steps in which a node runs and its partial is merged
NodeStep(node) == wfNode = node /\ wfNode' # node

\* the keys whose value a step changes
ChangedKeys == { k \in StateKeys : wfState'[k] # wfState[k] }

\* C10: when a node's partial is merged, the keys present in the partial
\* overwrite and every absent key keeps its value: after fallbackHandler returns
\* {generalAreaResult} the other four fields are unchanged, and after
\* responseAgent only finalResponseMessage has changed.
C10_MergeFrame ==
    [][ /\ \A node \in {"primaryHandler", "fallbackHandler", "responseAgent"} :
              NodeStep(node) =>
                  /\ \A k \in StateKeys :
                        wfState'[k] = IF k \in DOMAIN wfPartial' THEN wfPartial'[k]
                                                                 ELSE wfState[k]
                  /\ ChangedKeys \subseteq DOMAIN wfPartial'
        /\ NodeStep("fallbackHandler") =>
              /\ DOMAIN wfPartial' \subseteq {"generalAreaResult"}
              /\ ChangedKeys \subseteq {"generalAreaResult"}
        /\ NodeStep("responseAgent") =>
              /\ DOMAIN wfPartial' = {"finalResponseMessage"}
              /\ ChangedKeys = {"finalResponseMessage"}
      ]_vars

\* fallbackHandler has returned {generalAreaResult} and it has been merged
C10_Witness ==
    /\ wfExecuted = <<"primaryHandler", "fallbackHandler">>
    /\ DOMAIN wfPartial = {"generalAreaResult"}
    /\ wfState.generalAreaResult = wfPartial.generalAreaResult
    /\ wfState.primaryLocationFailed = TRUE
-----------------------------------------------------------------------------
(* Properties of the coordinator *)

\* the two predicates of the conditional branch, as the running variant
\* evaluates them on a decision
BookerPredicate(decision) ==
    IF script = "coordinatorSchema" THEN decision = "booker" ELSE Trim(decision) = "booker"

InfoPredicate(decision) ==
    IF script = "coordinatorSchema" THEN decision = "info" ELSE Trim(decision) = "info"

\* the invocations in which the delegation branch was evaluated
Delegated == { k \in 1..Len(coLog) : coLog[k].status = "resolved" }

\* C7: for every state in which neither decision = 'booker' nor decision = 'info'
\* holds, the conditional branch selects the default unclear handler.
C7_DefaultBranch ==
    \A k \in Delegated :
        (~BookerPredicate(coLog[k].decision) /\ ~InfoPredicate(coLog[k].decision)) =>
            /\ coLog[k].invoked = <<"unclearHandler">>
            /\ coLog[k].result = unclearHandler(coLog[k].request)

\* the branch of part_001 was evaluated on a decision that is none of the three
\* words, and on the decision 'unclear'
C7_Witness ==
    /\ script = "coordinatorTrim"
    /\ \E k \in Delegated :
          /\ Trim(coLog[k].decision) \notin routerOutputSchema
          /\ coLog[k].invoked = <<"unclearHandler">>
    /\ \E k \in Delegated : coLog[k].decision = "unclear"

\* the handler and the result the first matching branch gives for a valid decision
ExpectedHandler(decision) ==
    CASE decision = "booker"  -> "bookingHandler"
      [] decision = "info"    -> "infoHandler"
      [] decision = "unclear" -> "unclearHandler"

ExpectedResult(decision, request) ==
    CASE decision = "booker"  -> bookingHandler(request)
      [] decision = "info"    -> infoHandler(request)
      [] decision = "unclear" -> unclearHandler(request)

\* C8 as stated: for every request (here: every request the router model
\* answered) exactly one of the three handlers is invoked.
C8_EveryRequestOneHandler ==
    script = "coordinatorSchema" =>
        \A k \in 1..Len(coLog) :
            coLog[k].answer # undefined => Len(coLog[k].invoked) = 1

\* C8 as amended: for every request whose router call returns an answer that,
\* trimmed, is 'booker', 'info' or 'unclear', exactly one of the three handlers
\* is invoked, that of the first branch whose predicate holds: booking for
\* 'booker', info for 'info', the default unclear handler for 'unclear'.
C8_ValidRequestOneHandler ==
    \A k \in 1..Len(coLog) :
        (coLog[k].answer # undefined /\ Trim(coLog[k].answer) \in routerOutputSchema) =>
            /\ coLog[k].status = "resolved"
            /\ coLog[k].request = Requests[k]
            /\ coLog[k].invoked = << ExpectedHandler(Trim(coLog[k].answer)) >>
            /\ coLog[k].result = ExpectedResult(Trim(coLog[k].answer), Requests[k])

\* the three requests of main were classified 'booker', 'info' and 'unclear'
C8_Witness ==
    /\ script = "coordinatorSchema"
    /\ coPc = "done"
    /\ Len(coLog) = 3
    /\ coLog[1].decision = "booker" /\ coLog[1].invoked = <<"bookingHandler">>
    /\ coLog[2].decision = "info" /\ coLog[2].invoked = <<"infoHandler">>
    /\ coLog[3].decision = "unclear" /\ coLog[3].invoked = <<"unclearHandler">>

-----------------------------------------------------------------------------
(* Properties of the state merge *)

\* C11: merging an empty partial is a no-op: when fallbackHandler returns {}
\* because the primary lookup succeeded, the state after the node equals the
\* state before it (and merging {} into any state the run reaches gives that state).
C11_EmptyMergeNoOp ==
    [][ /\ Merge(wfState, << >>) = wfState
        /\ (NodeStep("fallbackHandler") /\ ~wfState.primaryLocationFailed) =>
              /\ DOMAIN wfPartial' = {}
              /\ wfState' = wfState
              /\ wfState' = Merge(wfState, wfPartial')
      ]_vars

\* fallbackHandler has returned {} after a successful primary lookup
C11_Witness ==
    /\ wfExecuted = <<"primaryHandler", "fallbackHandler">>
    /\ DOMAIN wfPartial = {}
    /\ wfState.primaryLocationFailed = FALSE
    /\ Truthy(wfState.preciseLocationResult)

\* the partial p1 overlaid by the partial p2: the keys of both, p2's value
\* where both have the key
Overlay(p1, p2) ==
    [k \in DOMAIN p1 \cup DOMAIN p2 |-> IF k \in DOMAIN p2 THEN p2[k] ELSE p1[k]]

\* the partials of a sequence overlaid in order
RECURSIVE OverlayAll(_)
OverlayAll(partials) ==
    IF Len(partials) = 0 THEN << >>
    ELSE Overlay(partials[1], OverlayAll(Tail(partials)))

\* C12: sequential merges compose key by key with later keys winning: the state
\* of a RAG run is the state the run started from overlaid by the nodes'
\* partials in execution order, any two successive partials merged one after
\* the other give what one merge of their overlay gives, and at END the
\* generation "" written by retrieve has been replaced by the one generate wrote.
C12_SequentialMerge ==
    script = "rag" =>
        /\ ragState = Merge(ragInputs, OverlayAll(ragPartials))
        /\ \A i \in 1..Len(ragPartials) : \A j \in (i + 1)..Len(ragPartials) :
               Merge(Merge(ragInputs, ragPartials[i]), ragPartials[j])
                   = Merge(ragInputs, Overlay(ragPartials[i], ragPartials[j]))
        /\ ragNode = "END" =>
               /\ Len(ragPartials) = 2
               /\ ragPartials[1].generation = ""
               /\ ragState.generation = ragGenerated
               /\ ragState.generation = ragPartials[2].generation
               /\ ragState.documents = ragPartials[1].documents
               /\ ragState.question = ragInputs.question

\* a RAG run at END: retrieve wrote "", generate wrote the model's answer
C12_Witness ==
    /\ script = "rag"
    /\ ragNode = "END"
    /\ ragRuns = 2
    /\ Len(ragState.documents) = 2
    /\ ragPartials[1].generation = ""
    /\ ragState.generation = "<generation B>"

-----------------------------------------------------------------------------
(* Properties of the parallel chains *)

\* the synthesis stage has started
SynthesisStarted == DOMAIN parSynthInput # {}

\* C14: join barrier: the synthesis stage starts only after the three sibling
\* chains and the topic passthrough have completed; it is never started while
\* a sibling is still running or with a sibling's output missing.
C14_JoinBarrier ==
    /\ parPc \in {"awaitSynthesis", "done"} => SynthesisStarted
    /\ SynthesisStarted =>
          /\ DOMAIN parSynthInput = ParKeys
          /\ \A k \in ParKeys :
                /\ parStatus[k] = "done"
                /\ parOutput[k] # undefined
                /\ parSynthInput[k] = parOutput[k]
          /\ \A k \in ParChains : parSynthInput[k] = parInFlight[k]
          /\ parSynthInput["topic"] = testTopic
          /\ Len(parCompleted) = Cardinality(ParKeys)

\* the synthesis has started after the siblings completed in an order other
\* than that of the keys, the passthrough neither first nor last
C14_Witness ==
    /\ parPc = "awaitSynthesis"
    /\ parLlm = "live"
    /\ parCompleted = <<"keyTerms", "topic", "questions", "summary">>
    /\ SynthesisStarted

\* the state the synthesis stage is handed in the mocked run whose sibling
\* chains call the model in the order of the keys
MockedSynthesisInput ==
    [ summary   |-> ParFakeResponses[1],
      questions |-> ParFakeResponses[2],
      keyTerms  |-> ParFakeResponses[3],
      topic     |-> testTopic ]

\* C15: merge order is irrelevant for fanned-out siblings: the state handed to
\* the synthesis stage is the same for every order in which the sibling chains
\* run and complete; in the mocked run, whose only inputs are the topic and the
\* shared FakeListChatModel, it is therefore one and the same state in every run.
C15_MergeOrderIrrelevant ==
    (SynthesisStarted /\ parLlm = "fake") =>
        \A k \in ParKeys : parSynthInput[k] = MockedSynthesisInput[k]

-----------------------------------------------------------------------------
(* Properties of the history of the reflection loop *)

IsPrefix(s1, s2) == Len(s1) <= Len(s2) /\ SubSeq(s2, 1, Len(s1)) = s1

\* C16 as stated: every iteration appends the producer's output and the
\* critic's feedback to messageHistory: the output of every producer call that
\* returned and every critique the critic returned is an entry of the history.
C16_EveryIterationAppendsFeedback ==
    /\ \A k \in 1..Len(rlCriticInputs) :
           \E j \in 1..Len(messageHistory) :
               /\ messageHistory[j].type = "ai"
               /\ rlCriticInputs[k] = RlReflectorPrompt(messageHistory[j].content)
    /\ \A k \in 1..Len(rlCritiques) :
           \E j \in 1..Len(messageHistory) :
               messageHistory[j] = RlCritiqueMessage(rlCritiques[k])

\* C16: in runReflectionLoop every iteration appends the producer's output to
\* messageHistory, and the critic's feedback unless the critique holds
\* CODE_IS_PERFECT (the loop is left before the critique is pushed), and
\* messageHistory is append-only: in every step the history before the step is
\* a prefix of the history after it.
C16_HistoryAppendOnly ==
    [][ /\ IsPrefix(messageHistory, messageHistory')
        /\ (rlPc = "awaitTask" /\ rlPc' = "awaitCritic") =>
               messageHistory' = Append(messageHistory, AIMessage(currentCode'))
        /\ (rlPc = "awaitCritic" /\ Len(rlCritiques') = Len(rlCritiques) + 1) =>
               LET critique == rlCritiques'[Len(rlCritiques')]
               IN  IF CritiqueSatisfied(critique)
                   THEN messageHistory' = messageHistory
                   ELSE messageHistory' = Append(messageHistory, RlCritiqueMessage(critique))
        /\ (rlPc = "generate" /\ rlPc' = "awaitTask") =>
               /\ Len(messageHistory') <= Len(messageHistory) + 1
               /\ rlProducerInputs'[Len(rlProducerInputs')] = messageHistory'
      ]_vars

\* the third iteration is about to start: two iterations have appended their
\* code and their critique
C16_Witness ==
    /\ script = "reflection"
    /\ rlPc = "awaitTask"
    /\ rlI = 2
    /\ Len(messageHistory) = 7
    /\ Len(rlCritiques) = 2
    /\ messageHistory[3] = RlCritiqueMessage(rlCritiques[1])
    /\ messageHistory[6] = RlCritiqueMessage(rlCritiques[2])
    /\ messageHistory[2].type = "ai" /\ messageHistory[5].type = "ai"

-----------------------------------------------------------------------------
(* The first evaluation already satisfied *)

\* in a run whose first evaluation was satisfied no critique is stored or
\* passed to a producer, and the loop has ended after iteration 1
FirstSatisfiedNothingKept ==
    /\ rlSatisfiedAt = 1 =>
          /\ rlPc \in {"final", "done"}
          /\ rlI = 0
          /\ Len(rlCritiques) = 1
          /\ messageHistory = << HumanMessage(taskPrompt), AIMessage(currentCode) >>
          /\ rlProducerInputs = << << HumanMessage(taskPrompt) >> >>
    /\ caSatisfiedAt = 1 =>
          /\ caPc \in {"save", "awaitSummary", "done", "rejected"}
          /\ caI = 0
          /\ caProducerCalls = 1 /\ caVerdicts = 1
          /\ feedback = "" /\ previousCode = ""
          /\ \A n \in 1..Len(caPrompt) : caPrompt[n][1] \notin {"refinePrompt", "feedbackPrompt"}

\* C17 as stated: if the critic's first evaluation is already satisfied the loop
\* terminates after iteration 1 with no feedback ever generated: no critique
\* text is produced, stored or passed to a producer in that run.
C17_NoFeedbackGenerated ==
    /\ FirstSatisfiedNothingKept
    /\ caSatisfiedAt = 1 => (caCriticCalls = 0 /\ caFeedbackText = "")

\* C17: if the critic's first evaluation is already satisfied the loop
\* terminates after iteration 1 and no critique text is stored in the history
\* or in feedback, nor passed to a producer, in that run; in runCodeAgent the
\* feedback text of iteration 1 has been produced, by the one getCodeFeedback
\* call that precedes goalsMet.
C17_FirstSatisfied ==
    /\ FirstSatisfiedNothingKept
    /\ caSatisfiedAt = 1 => caCriticCalls = 1

\* runCodeAgent has left the loop in iteration 1 with a feedback text at hand
C17_Witness ==
    /\ script = "codeAgent"
    /\ caSatisfiedAt = 1
    /\ caPc = "save"
    /\ caFeedbackText # ""
    /\ feedback = ""

-----------------------------------------------------------------------------
(* Runs of the fallback workflow *)

\* a runSequentialAgent call starts the graph
RunStarts == wfNode = "idle" /\ wfNode' = EntryNode

\* C18: per-run state: every invocation starts from a fresh state made of the
\* caller's initial fields plus the defaults (primaryLocationFailed = false,
\* finalResponseMessage = "", result fields unset), whatever state the run
\* before it ended in: the second runSequentialAgent call starts from the same
\* defaults as the first.
C18_FreshStatePerRun ==
    [][ RunStarts =>
           /\ wfState'.query \in Queries
           /\ wfState'.primaryLocationFailed = FALSE
           /\ wfState'.finalResponseMessage = ""
           /\ wfState'.preciseLocationResult = undefined
           /\ wfState'.generalAreaResult = undefined
           /\ wfExecuted' = << >> /\ wfToolCalls' = << >>
           /\ wfRuns > 0 => wfState.finalResponseMessage # ""
      ]_vars

\* the second run has started, from the defaults, after a completed first run
C18_Witness ==
    /\ script = "fallback"
    /\ wfRuns = 2
    /\ wfNode = EntryNode
    /\ wfExecuted = << >>
    /\ wfState = LocationStateSchema([query |-> "Vague Area near Los Angeles"])

\* C19: callers receive either a completed final state or an abort, never a
\* partial result: every run of the fallback workflow that returns a state has
\* executed responseAgent, and that state carries a non-empty
\* finalResponseMessage.
C19_CompletedOrAbort ==
    /\ wfNode = "END" =>
          /\ Len(wfExecuted) > 0
          /\ wfExecuted[Len(wfExecuted)] = "responseAgent"
          /\ wfState.finalResponseMessage # ""
          /\ wfState.finalResponseMessage = wfPartial.finalResponseMessage
    /\ wfPrinted # undefined =>
          /\ wfPrinted # ""
          /\ wfPrinted = wfState.finalResponseMessage
          /\ \E n \in 1..Len(wfExecuted) : wfExecuted[n] = "responseAgent"
    /\ wfNode \in {"primaryHandler", "fallbackHandler", "responseAgent", "rejected"} =>
          wfPrinted = undefined

\* a run has returned its final state to runSequentialAgent
C19_Witness ==
    /\ script = "fallback"
    /\ wfNode = "idle"
    /\ wfRuns = 1
    /\ wfPrinted = wfState.finalResponseMessage
    /\ wfState.primaryLocationFailed
    /\ wfExecuted = NodeOrder

-----------------------------------------------------------------------------
(* Termination of the refinement loops *)

\* C20: every run of a refinement loop terminates: provided each call of the
\* model returns, runReflectionLoop and runCodeAgent reach their final-result
\* step (FINAL RESULT, saveCodeToFile) after at most maxIterations iterations;
\* the generate-critique cycle is never unbounded.
C20_Termination ==
    /\ [](/\ rlI <= maxIterations /\ Len(rlProducerInputs) <= maxIterations
          /\ caI <= caMax /\ caProducerCalls <= caMax
          /\ rlPc \in {"final", "done"} => Len(rlCritiques) <= maxIterations
          /\ caPc \in {"save", "awaitSummary", "done"} => caVerdicts <= caMax)
    /\ [][ /\ rlPc' = "done" => rlPc \in {"final", "done"}
           /\ caPc' = "awaitSummary" => caPc \in {"save", "awaitSummary"} ]_vars
    /\ <>[](/\ script = "reflection" => rlPc = "done"
            /\ script = "codeAgent" => caPc = "awaitSummary")

\* runReflectionLoop has ended by its ceiling, the critic never satisfied
C20_Witness ==
    /\ script = "reflection"
    /\ rlPc = "done"
    /\ rlLlm = "live"
    /\ rlSatisfiedAt = 0
    /\ rlI = maxIterations
    /\ Len(rlCritiques) = maxIterations

-----------------------------------------------------------------------------
(* What the producer is given *)

\* the templates a prompt of generatePrompt is made of
PromptSections(prompt) == { prompt[n] : n \in 1..Len(prompt) }

\* the producer of runReflectionLoop has been invoked and has not answered yet
RlProducerInvoked == script = "reflection" /\ rlPc = "awaitTask"

\* the producer of runCodeAgent has been invoked and has not answered yet;
\* code and caFeedbackText still are those of the iteration before
CaProducerInvoked == script = "codeAgent" /\ caPc = "awaitCode"

\* the part of C21 about runReflectionLoop, and iteration 1 of runCodeAgent
ProducerInputBase ==
    /\ RlProducerInvoked =>
          LET input == rlProducerInputs[Len(rlProducerInputs)]
              n     == Len(input)
          IN  /\ input = messageHistory
              /\ rlI = 0 => input = << HumanMessage(taskPrompt) >>
              /\ rlI > 0 =>
                    /\ n >= 4
                    /\ input[1] = HumanMessage(taskPrompt)
                    /\ input[n - 2] = AIMessage(currentCode)
                    /\ input[n - 1] = RlCritiqueMessage(rlCritiques[rlI])
                    /\ input[n] = HumanMessage(refinementPrompt)
    /\ (CaProducerInvoked /\ caI = 0) =>
          caPrompt = << <<"generatePrompt", useCaseInput1, GoalsList(goals1)>>, <<"endPrompt">> >>

\* C21 as stated: on iteration 1 the producer receives only the task; on every
\* iteration i > 1 it receives the artifact and the critique produced in
\* iteration i-1 (via messageHistory in runReflectionLoop, via previousCode and
\* feedback in runCodeAgent).
C21_ProducerInput ==
    /\ ProducerInputBase
    /\ (CaProducerInvoked /\ caI > 0) =>
          /\ <<"refinePrompt", code>> \in PromptSections(caPrompt)
          /\ <<"feedbackPrompt", caFeedbackText>> \in PromptSections(caPrompt)

\* C21: on iteration 1 the producer receives only the task; on every iteration
\* i > 1 it receives the artifact and the critique produced in iteration i-1,
\* in runCodeAgent each of the two only when it is not the empty string: an
\* empty previousCode or feedback is left out of the prompt.
C21_ProducerInputNonEmpty ==
    /\ ProducerInputBase
    /\ (CaProducerInvoked /\ caI > 0) =>
          /\ previousCode = code /\ feedback = caFeedbackText
          /\ code # "" <=> <<"refinePrompt", code>> \in PromptSections(caPrompt)
          /\ caFeedbackText # "" <=>
                <<"feedbackPrompt", caFeedbackText>> \in PromptSections(caPrompt)
          /\ \A section \in PromptSections(caPrompt) :
                /\ section[1] = "refinePrompt" => section = <<"refinePrompt", code>>
                /\ section[1] = "feedbackPrompt" =>
                      section = <<"feedbackPrompt", caFeedbackText>>

\* the producer of runCodeAgent is invoked on iteration 3 with the code and
\* the feedback of iteration 2
C21_Witness ==
    /\ CaProducerInvoked
    /\ caI = 2
    /\ code # "" /\ caFeedbackText # ""
    /\ caPrompt = << <<"generatePrompt", useCaseInput1, GoalsList(goals1)>>,
                     <<"refinePrompt", code>>,
                     <<"feedbackPrompt", caFeedbackText>>,
                     <<"endPrompt">> >>

-----------------------------------------------------------------------------
(* Uncaught failures *)

\* the call that runReflectionLoop is waiting for is rejected
RlCallRejected == rlPc \in {"awaitTask", "awaitCritic"} /\ rlPc' = "rejected"

\* the node that the fallback workflow executes is rejected
WfNodeRejected ==
    /\ wfNode \in {"primaryHandler", "fallbackHandler", "responseAgent"}
    /\ wfNode' = "rejected"

\* C22: an uncaught collaborator failure aborts the run: when an LLM call fails
\* inside runReflectionLoop, or the tool fails inside fallbackHandler,
\* execution stops at that call: nothing that the run has computed changes, no
\* later node or iteration runs, and no final result is reported; the run ends
\* as a rejection.
C22_UncaughtFailureAborts ==
    [][ /\ RlCallRejected =>
              /\ UNCHANGED <<rlI, currentCode, messageHistory, rlProducerInputs,
                             rlCriticInputs, rlCritiques, rlSatisfiedAt, rlFinal>>
              /\ rlFinal' = undefined
        /\ (rlPc' = "rejected") => (RlCallRejected \/ rlPc = "rejected")
        /\ (rlPc = "rejected") => UNCHANGED rlVars
        /\ (rlPc = "awaitTask" /\ rlPc' # rlPc) =>
              \/ RlCallRejected
              \/ Len(messageHistory') = Len(messageHistory) + 1
        /\ (rlPc = "awaitCritic" /\ rlPc' # rlPc) =>
              \/ RlCallRejected
              \/ Len(rlCritiques') = Len(rlCritiques) + 1
        /\ WfNodeRejected =>
              /\ wfExecuted' = Append(wfExecuted, wfNode)
              /\ UNCHANGED <<wfState, wfPartial, wfPrinted>>
              /\ wfPrinted' = undefined
        /\ (wfNode' = "rejected") => (WfNodeRejected \/ wfNode = "rejected")
        /\ (wfNode = "rejected") => UNCHANGED wfVars
      ]_vars

\* the critic's call of the second iteration has failed: one code and one
\* critique exist, and nothing is reported
C22_Witness ==
    /\ script = "reflection"
    /\ rlPc = "rejected"
    /\ rlI = 1
    /\ Len(rlProducerInputs) = 2
    /\ Len(rlCriticInputs) = 1
    /\ Len(rlCritiques) = 1
    /\ rlFinal = undefined

-----------------------------------------------------------------------------
(* The mocked reflection run *)

\* C23: with the one FakeListChatModel that producer and critic share, whose
\* four responses are consumed in list order (generation, critique, refinement,
\* "CODE_IS_PERFECT"), runReflectionLoop performs exactly two iterations, stops
\* on the second critique, never starts a third iteration, and reports the
\* second generated code as the final result.
C23_MockedReflectionRun ==
    (script = "reflection" /\ rlLlm = "fake" /\ rlPc # "main") =>
        /\ rlPc # "rejected"
        /\ rlI \in {0, 1}
        /\ Len(rlProducerInputs) <= 2
        /\ Len(rlCriticInputs) <= Len(rlProducerInputs)
        /\ Len(rlCritiques) <= Len(rlCriticInputs)
        /\ rlFakeIdx = (Len(rlCriticInputs) + Len(rlCritiques)) % Len(FakeResponses)
        /\ Len(rlCriticInputs) >= 1 =>
              rlCriticInputs[1] = RlReflectorPrompt(FakeResponses[1])
        /\ Len(rlCritiques) >= 1 => rlCritiques[1] = FakeResponses[2]
        /\ Len(rlCriticInputs) >= 2 =>
              rlCriticInputs[2] = RlReflectorPrompt(FakeResponses[3])
        /\ Len(rlCritiques) >= 2 => rlCritiques[2] = FakeResponses[4]
        /\ Len(rlCriticInputs) > Len(rlCritiques) =>
              currentCode = FakeResponses[2 * Len(rlCriticInputs) - 1]
        /\ rlSatisfiedAt \in {0, 2}
        /\ rlSatisfiedAt = 2 <=> Len(rlCritiques) = 2
        /\ rlPc \in {"final", "done"} =>
              /\ rlSatisfiedAt = 2
              /\ rlI = 1
              /\ Len(rlProducerInputs) = 2
              /\ currentCode = FakeResponses[3]
        /\ rlPc = "done" => rlFinal = FakeResponses[3]

\* the mocked run has reported its final code
C23_Witness ==
    /\ script = "reflection"
    /\ rlLlm = "fake"
    /\ rlPc = "done"
    /\ rlFinal = FakeResponses[3]
    /\ rlCritiques = <<FakeResponses[2], FakeResponses[4]>>
    /\ Len(rlProducerInputs) = 2

-----------------------------------------------------------------------------
(* Exactly one lookup result *)

\* a run of the fallback workflow has reached its final state
WfFinalState == script = "fallback" /\ wfNode = "END"

\* C24: in every final state of the fallback workflow exactly one of
\* preciseLocationResult and generalAreaResult is set: primaryLocationFailed is
\* true iff preciseLocationResult is unset, and iff generalAreaResult is set;
\* consequently the "unable to retrieve either" branch of responseAgent is
\* never taken.
C24_ExactlyOneResult ==
    /\ WfFinalState =>
          /\ Truthy(wfState.preciseLocationResult) # Truthy(wfState.generalAreaResult)
          /\ (wfState.preciseLocationResult = undefined)
                # (wfState.generalAreaResult = undefined)
          /\ wfState.primaryLocationFailed <=> (wfState.preciseLocationResult = undefined)
          /\ wfState.primaryLocationFailed <=> (wfState.generalAreaResult # undefined)
          /\ wfState.finalResponseMessage =
                IF wfState.primaryLocationFailed THEN GeneralMessage(wfState)
                                                 ELSE PreciseMessage(wfState)
    /\ wfState.finalResponseMessage # ApologyMessage
    /\ wfPartial # << >> /\ "finalResponseMessage" \in DOMAIN wfPartial
          => wfPartial.finalResponseMessage # ApologyMessage
    /\ wfPrinted # ApologyMessage

\* a final state in which the precise lookup failed and the general one answered
C24_Witness ==
    /\ WfFinalState
    /\ wfState.primaryLocationFailed
    /\ wfState.preciseLocationResult = undefined
    /\ wfState.generalAreaResult # undefined
    /\ wfState.finalResponseMessage = GeneralMessage(wfState)

-----------------------------------------------------------------------------
(* Field ownership *)

\* the keys that a node may return
OwnedKeys(node) ==
    CASE node = "primaryHandler"  -> {"preciseLocationResult", "primaryLocationFailed"}
      [] node = "fallbackHandler" -> {"generalAreaResult"}
      [] node = "responseAgent"   -> {"finalResponseMessage"}

\* C25: field ownership in the fallback workflow: query is never modified by
\* any node (its final value equals the caller's input), and each other field
\* has a single writer: preciseLocationResult and primaryLocationFailed only
\* primaryHandler, generalAreaResult only fallbackHandler, finalResponseMessage
\* only responseAgent.
C25_FieldOwnership ==
    [][ /\ \A node \in {"primaryHandler", "fallbackHandler", "responseAgent"} :
              NodeStep(node) =>
                  /\ wfNode' # "rejected" => DOMAIN wfPartial' \subseteq OwnedKeys(node)
                  /\ ChangedKeys \subseteq OwnedKeys(node)
                  /\ wfState'.query = wfState.query
        /\ wfNode # "idle" => wfState'.query = wfState.query
        /\ wfNode = "idle" /\ wfNode' # "idle" =>
              /\ wfState' = LocationStateSchema([query |-> wfState'.query])
              /\ wfPartial' = << >>
        /\ wfNode' = "END" =>
              /\ Len(wfToolCalls') >= 1
              /\ wfToolCalls'[1] = <<"getPreciseLocationInfo", wfState'.query>>
      ]_vars

\* all three nodes have run on a query with surrounding blanks, and the last
\* partial is responseAgent's
C25_Witness ==
    /\ script = "fallback"
    /\ wfNode = "END"
    /\ wfExecuted = NodeOrder
    /\ wfState.query = "Somewhere, Paris , France "
    /\ DOMAIN wfPartial = {"finalResponseMessage"}
    /\ wfState.generalAreaResult # undefined

-----------------------------------------------------------------------------
(* The shape of the history *)

\* the last three messages of a history
LastThree(history) == SubSeq(history, Len(history) - 2, Len(history))

\* C26: the first element of messageHistory is always the task prompt, and
\* whenever the producer is invoked on iteration i > 1 the history has length
\* 3(i-1)+1 and ends with the code of iteration i-1, the critique of iteration
\* i-1 and the refinement prompt, in that order.
C26_HistoryShape ==
    (script = "reflection" /\ rlPc # "main") =>
        /\ Len(messageHistory) >= 1
        /\ messageHistory[1] = HumanMessage(taskPrompt)
        /\ \A i \in 1..Len(rlProducerInputs) :
              /\ rlProducerInputs[i][1] = HumanMessage(taskPrompt)
              /\ Len(rlProducerInputs[i]) = 3 * (i - 1) + 1
              /\ i > 1 =>
                    LET last == LastThree(rlProducerInputs[i])
                    IN  /\ last[1] = AIMessage(last[1].content)
                        /\ rlCriticInputs[i - 1] = RlReflectorPrompt(last[1].content)
                        /\ last[2] = RlCritiqueMessage(rlCritiques[i - 1])
                        /\ last[3] = HumanMessage(refinementPrompt)
        /\ (rlPc = "awaitTask" /\ rlI > 0) =>
              /\ Len(rlProducerInputs) = rlI + 1
              /\ messageHistory = rlProducerInputs[rlI + 1]
              /\ Len(messageHistory) = 3 * rlI + 1
              /\ LastThree(messageHistory) =
                    << AIMessage(currentCode),
                       RlCritiqueMessage(rlCritiques[rlI]),
                       HumanMessage(refinementPrompt) >>
              /\ rlCriticInputs[rlI] = RlReflectorPrompt(currentCode)

\* the producer is invoked on its third iteration
C26_Witness ==
    /\ script = "reflection"
    /\ rlPc = "awaitTask"
    /\ rlI = 2
    /\ Len(messageHistory) = 7
    /\ messageHistory[7] = HumanMessage(refinementPrompt)
    /\ messageHistory[4] = HumanMessage(refinementPrompt)

-----------------------------------------------------------------------------
(* The two versions of the fallback workflow *)

\* the renaming of the snake_case fields and nodes to the camelCase ones
RenamedState(state) ==
    [ query                 |-> state.query,
      preciseLocationResult |-> state.precise_location_result,
      primaryLocationFailed |-> state.primary_location_failed,
      generalAreaResult     |-> state.general_area_result,
      finalResponseMessage  |-> state.final_response_message ]

RenamedNode(node) ==
    CASE node = "primary_handler"  -> "primaryHandler"
      [] node = "fallback_handler" -> "fallbackHandler"
      [] node = "response_agent"   -> "responseAgent"
      [] OTHER                     -> node

RenamedNodes(nodes) == [n \in 1..Len(nodes) |-> RenamedNode(nodes[n])]

RenamedCalls(calls) ==
    [n \in 1..Len(calls) |->
        << IF calls[n][1] = "get_precise_location_info" THEN "getPreciseLocationInfo"
                                                        ELSE "getGeneralAreaInfo",
           calls[n][2] >>]

\* the camelCase workflow after its first n nodes, started on a query
RECURSIVE WfAfter(_, _)
WfAfter(n, query) ==
    IF n = 0
    THEN [ node     |-> EntryNode,
           state    |-> LocationStateSchema([query |-> query]),
           executed |-> << >>,
           calls    |-> << >> ]
    ELSE LET before == WfAfter(n - 1, query)
             out    == RunNode(before.node, before.state)
         IN  [ node     |-> NextNode(before.node),
               state    |-> Merge(before.state, out.partial),
               executed |-> Append(before.executed, before.node),
               calls    |-> before.calls \o out.calls ]

\* C27: the two versions of the fallback workflow (the camelCase graph with
\* START/END edges, the snake_case graph with setEntryPoint/setFinishPoint) are
\* equivalent: for every query they execute the corresponding nodes in the same
\* order and end in final states that agree field by field under the renaming
\* of the fields.
C27_VersionsEquivalent ==
    /\ (script = "fallback" /\ wfNode \notin {"idle", "rejected"}) =>
          LET camel == WfAfter(Len(wfExecuted), wfState.query)
          IN  /\ wfNode = camel.node
              /\ wfState = camel.state
              /\ wfExecuted = camel.executed
              /\ wfToolCalls = camel.calls
    /\ (script = "fallbackSnake" /\ swNode \notin {"idle", "rejected"}) =>
          LET camel == WfAfter(Len(swExecuted), swState.query)
          IN  /\ RenamedNode(swNode) = camel.node
              /\ RenamedState(swState) = camel.state
              /\ RenamedNodes(swExecuted) = camel.executed
              /\ RenamedCalls(swToolCalls) = camel.calls
    /\ (script = "fallbackSnake" /\ swNode = "END") =>
          /\ Len(swExecuted) = Len(NodeOrder)
          /\ RenamedNodes(swExecuted) = NodeOrder
    /\ (script = "fallbackSnake" /\ swNode = "idle" /\ swRuns > 0) =>
          /\ RenamedState(swState) = WfAfter(Len(NodeOrder), swState.query).state
          /\ swPrinted = WfAfter(Len(NodeOrder), swState.query).state.finalResponseMessage
    /\ swNode # "rejected"

\* the snake_case workflow has ended a run in which the fallback was used for a
\* query whose last part has surrounding blanks
C27_Witness ==
    /\ script = "fallbackSnake"
    /\ swNode = "END"
    /\ swState.query = "Somewhere, Paris , France "
    /\ swState.primary_location_failed
    /\ swToolCalls[2] = <<"get_general_area_info", "France">>
    /\ swExecuted = <<"primary_handler", "fallback_handler", "response_agent">>

-----------------------------------------------------------------------------
(* The two coordinator variants *)

\* the variant that the running script is not
OtherVariant == IF script = "coordinatorSchema" THEN "coordinatorTrim"
                                                ELSE "coordinatorSchema"

\* the router's answer is one of the three decisions once it is trimmed
ValidAnswer(answer) == answer # undefined /\ Trim(answer) \in {"booker", "info", "unclear"}

\* C28: the two coordinator variants agree on valid decisions: for every
\* router output that equals 'booker', 'info' or 'unclear' after trimming
\* surrounding whitespace, both invoke the same handler and return the same
\* result string.
C28_VariantsAgreeOnValid ==
    script \in {"coordinatorSchema", "coordinatorTrim"} =>
        \A n \in 1..Len(coLog) :
            ValidAnswer(coLog[n].answer) =>
                LET other == coordinatorAgent(OtherVariant, coLog[n].request, coLog[n].answer)
                IN  /\ coLog[n].status = "resolved"
                    /\ other.status = "resolved"
                    /\ Len(coLog[n].invoked) = 1
                    /\ coLog[n].invoked = other.invoked
                    /\ coLog[n].result = other.result
                    /\ coLog[n].result # undefined

\* the trimming variant has answered a request on a padded decision
C28_Witness ==
    /\ script = "coordinatorTrim"
    /\ Len(coLog) >= 2
    /\ coLog[2].answer = " info\n"
    /\ coLog[2].invoked = <<"infoHandler">>
    /\ coLog[2].result = infoHandler(Requests[2])

-----------------------------------------------------------------------------
(* Rejected router outputs *)

\* C29: in the schema-validated coordinator, a router output that after
\* trimming is none of 'booker', 'info', 'unclear' makes the invocation fail at
\* the validation step before the delegation branch is evaluated: no handler,
\* not even the default unclear handler, is invoked for that request, and the
\* later requests of main are not run.
C29_InvalidOutputRejected ==
    script = "coordinatorSchema" =>
        \A n \in 1..Len(coLog) :
            (coLog[n].answer # undefined /\ ~ValidAnswer(coLog[n].answer)) =>
                /\ coLog[n].status = "rejected"
                /\ coLog[n].decision = undefined
                /\ coLog[n].invoked = << >>
                /\ coLog[n].result = undefined
                /\ n = Len(coLog)
                /\ coReq = n
                /\ coPc = "rejected"

\* the second request of main was answered with a word outside the schema
C29_Witness ==
    /\ script = "coordinatorSchema"
    /\ coPc = "rejected"
    /\ Len(coLog) = 2
    /\ coLog[1].status = "resolved"
    /\ coLog[2].answer = "Booker"
    /\ coLog[2].invoked = << >>

-----------------------------------------------------------------------------
(* Sequential, failure-isolated runs *)

\* C30: the tool-agent example runs its three queries strictly one after
\* another in list order, each exactly once, and a failure of one agent
\* invocation is caught inside runAgentWithTool and never prevents the later
\* queries from running (likewise scenario 2 of the support agent runs even
\* when scenario 1 fails).
C30_SequentialIsolatedRuns ==
    /\ script = "toolAgent" =>
          /\ taPc \in {"main", "task", "awaitAgent", "done"}
          /\ Len(taLog) <= Len(tasks)
          /\ \A n \in 1..Len(taLog) :
                /\ taLog[n].query = tasks[n]
                /\ taLog[n].status \in {"response", "error"}
          /\ taPc = "main" => taLog = << >>
          /\ taPc \in {"task", "awaitAgent"} => taTask = Len(taLog) + 1
          /\ taPc = "done" <=> Len(taLog) = Len(tasks)
    /\ script = "supportAgent" =>
          /\ saPc \in {"main", "scenario", "awaitAgent", "done"}
          /\ Len(saLog) <= Len(initialMessages)
          /\ \A n \in 1..Len(saLog) :
                /\ saLog[n].scenario = n
                /\ saLog[n].status \in {"response", "error"}
          /\ saPc = "main" => saLog = << >>
          /\ saPc \in {"scenario", "awaitAgent"} => saScenario = Len(saLog) + 1
          /\ saPc = "awaitAgent" =>
                saInvoked[Len(saInvoked)] = HumanMessage(initialMessages[saScenario])
          /\ saPc = "done" <=> Len(saLog) = Len(initialMessages)

\* the first invocation of the tool agent failed, and the two later queries
\* were answered
C30_Witness ==
    /\ script = "toolAgent"
    /\ taPc = "done"
    /\ Len(taLog) = Len(tasks)
    /\ taLog[1].status = "error"
    /\ taLog[2].status = "response"
    /\ taLog[3].status = "response"
    /\ taLog[3].query = "Tell me something about dogs."
====
